---- MODULE Spec2Model ----
(***************************************************************************)
(* GitSphere backend: the JWT authentication middleware (Auth Gate) and    *)
(* its refresh protocol, gitsphere-backend/jwt_middleware.py, as installed *)
(* by gitsphere-backend/main.py.                                           *)
(*                                                                         *)
(* Time is counted in minutes since the Unix epoch.  A Python value that   *)
(* may be absent (dict.get returning None) is a set with at most one       *)
(* element: {} is None / key absent, {v} is the value v.                   *)
(***************************************************************************)
EXTENDS Integers, Sequences, FiniteSets, TLC

\* ------------------------------------------------------------- bounds
\* Expiry offsets offered to the gate: -MaxDelta..MaxDelta half-thresholds.
MaxDelta == 3
\* Server time zones: -MaxTz..MaxTz hours east of UTC.
MaxTz == 1
\* Number of clock advances in one behaviour.
MaxTicks == 2
\* Full pages of repositories a user may have: listings of up to
\* MaxPages * PER_PAGE + 1 repositories.
MaxPages == 2
\* Username lists of a battle: every list of up to MaxNames names, and
\* one list at the bound of a battle, one past it and one past the bound
\* of a multi-battle.
MaxNames == 3
\* Accounts a call of analyze_profile may find: AccountOf(0..MaxAccount).
MaxAccount == 1
\* Levels of each input of calculate_battle_score: 0..MaxLevel.
MaxLevel == 2
\* Issue lists of calculate_activity_metrics: up to MaxIssues issues,
\* closed up to MaxAge time units after the oldest was created.
MaxIssues == 3
MaxAge == 3
\* Bulk requests: every list of up to MaxRepos entries, one of the most
\* entries allowed and one past it.
MaxRepos == 3

\* ------------------------------------------------- program constants
\* per_page of get_repositories
PER_PAGE == 100

\* The bounds on the usernames of a battle and of a multi-battle.
MIN_USERS == 2
MAX_BATTLE_USERS == 5
MAX_MULTI_USERS == 10

\* The most repositories of a bulk analysis.
MAX_BULK == 5

REFRESH_THRESHOLD_MINUTES == 30
JWT_EXPIRATION_HOURS == 120
REFRESH_EXPIRATION_HOURS == 24
UPSTREAM_OK == 200

HalfThreshold == REFRESH_THRESHOLD_MINUTES \div 2
StartTime == JWT_EXPIRATION_HOURS * 60

\* ------------------------------------------------------ configuration
\* main.py: exclude_paths handed to the middleware.  A path is a sequence
\* of text chunks; str.startswith is the prefix relation on the chunks
\* ("/api/docs" is "/api/doc" followed by "s").
ExcludePaths ==
    << <<"/api", "/doc">>, <<"/api", "/redoc">>, <<"/openapi.json">>,
       <<"/api", "/auth", "/github">>, <<"/api", "/v1", "/health">>,
       <<"/api", "/auth", "/refresh">>, <<"/api", "/auth", "/login">> >>

StartsWith(path, prefix) ==
    /\ Len(prefix) <= Len(path)
    /\ SubSeq(path, 1, Len(prefix)) = prefix

\* jwt_middleware.py line 34
PathExcluded(path) ==
    \E i \in 1..Len(ExcludePaths) : StartsWith(path, ExcludePaths[i])

RequestPaths ==
    { <<"/api", "/doc", "s">>, <<"/api", "/v1", "/battle", "/start">> }

\* The routes the application serves, each with what it is for: the
\* documentation pages of FastAPI, the routes of main.py and the routes of
\* the three routers under their prefixes.  A path parameter is one chunk.
AppRoutes ==
    { [path |-> <<"/api", "/doc", "s">>, route |-> "docs"],
      [path |-> <<"/api", "/redoc">>, route |-> "docs"],
      [path |-> <<"/openapi.json">>, route |-> "docs"],
      [path |-> <<"/api", "/auth", "/github">>, route |-> "oauth_entry"],
      [path |-> <<"/api", "/auth", "/refresh">>, route |-> "token_refresh"],
      [path |-> <<"/api", "/auth", "/token/status">>, route |-> "token_status"],
      [path |-> <<"/api", "/v1", "/health">>, route |-> "health"],
      [path |-> <<"/api", "/v1", "/profile-analyzer", "/analyze", "/octocat">>, route |-> "profile"],
      [path |-> <<"/api", "/v1", "/profile-analyzer", "/profile", "/octocat">>, route |-> "profile"],
      [path |-> <<"/api", "/v1", "/profile-analyzer", "/insights", "/octocat">>, route |-> "profile"],
      [path |-> <<"/api", "/v1", "/profile-analyzer", "/repositories", "/octocat">>, route |-> "profile"],
      [path |-> <<"/api", "/v1", "/repository-analyzer", "/analyze", "/octocat", "/hello">>, route |-> "repository"],
      [path |-> <<"/api", "/v1", "/repository-analyzer", "/info", "/octocat", "/hello">>, route |-> "repository"],
      [path |-> <<"/api", "/v1", "/repository-analyzer", "/insights", "/octocat", "/hello">>, route |-> "repository"],
      [path |-> <<"/api", "/v1", "/repository-analyzer", "/languages", "/octocat", "/hello">>, route |-> "repository"],
      [path |-> <<"/api", "/v1", "/repository-analyzer", "/contributors", "/octocat", "/hello">>, route |-> "repository"],
      [path |-> <<"/api", "/v1", "/repository-analyzer", "/file", "/octocat", "/hello", "/README.md">>, route |-> "repository"],
      [path |-> <<"/api", "/v1", "/repository-analyzer", "/bulk-analyze">>, route |-> "repository"],
      [path |-> <<"/api", "/v1", "/repository-analyzer", "/tree", "/octocat", "/hello">>, route |-> "repository"],
      [path |-> <<"/api", "/v1", "/battle", "/start">>, route |-> "battle"],
      [path |-> <<"/api", "/v1", "/battle", "/multi-battle">>, route |-> "battle"],
      [path |-> <<"/api", "/v1", "/battle", "/quick-battle">>, route |-> "battle"],
      [path |-> <<"/api", "/v1", "/battle", "/category-battle", "/stars">>, route |-> "battle"],
      [path |-> <<"/api", "/v1", "/battle", "/battle-types">>, route |-> "battle"] }

\* ---------------------------------------------------------- Python-isms
\* bool(x) of an optional number: None and 0 are falsy.
TruthyNum(opt) == \E v \in opt : v # 0

\* bool(x) of an optional string: None and "" are falsy.
TruthyStr(opt) == \E v \in opt : v # ""

\* str.lower() on the schemes offered.
Lower(s) ==
    CASE s = "Bearer" -> "bearer"
      [] s = "BEARER" -> "bearer"
      [] s = "Basic"  -> "basic"
      [] OTHER        -> s

\* ------------------------------------------------------------- tokens
NoPayload ==
    [exp |-> {}, access_token |-> {}, scopes |-> {}, user_id |-> {},
     iat |-> {}, type |-> {}, refreshed_at |-> {}]

\* A string that is no JWT at all.
GarbageToken == [form |-> "malformed", payload |-> NoPayload]

AccessTokens == { {}, {""}, {"gho_A"} }
ScopeLists == { {}, {<<"public_repo", "read:user">>} }
UserIds == { {}, {"u1"} }

\* Expiry claims offered at time t: absent, the epoch itself, and times
\* around t.
ExpClaims(t) ==
    { {}, {0} } \cup { {t + d * HalfThreshold} : d \in (0 - MaxDelta)..MaxDelta }

\* Validly signed tokens with every combination of claims, and tokens
\* whose signature does not verify, with every expiry.
CraftedTokens(t) ==
    { [form |-> "signed",
       payload |-> [exp |-> e, access_token |-> a, scopes |-> s, user_id |-> u,
                    iat |-> {}, type |-> {"github_token"}, refreshed_at |-> {}]] :
        e \in ExpClaims(t), a \in AccessTokens, s \in ScopeLists, u \in UserIds }
      \cup
    { [form |-> "badsig",
       payload |-> [exp |-> e, access_token |-> {"gho_A"},
                    scopes |-> {<<"public_repo", "read:user">>}, user_id |-> {},
                    iat |-> {}, type |-> {"github_token"}, refreshed_at |-> {}]] :
        e \in ExpClaims(t) }

\* ------------------------------------------------------------ headers
\* The Authorization header: absent, the empty string, or text that
\* str.split() cuts into nparts words, the first the scheme, the second
\* the token.
NoHeader == [kind |-> "absent", nparts |-> 0, scheme |-> "", token |-> GarbageToken]
EmptyHeader == [kind |-> "empty", nparts |-> 0, scheme |-> "", token |-> GarbageToken]
BlankHeader == [kind |-> "text", nparts |-> 0, scheme |-> "", token |-> GarbageToken]
OneWordHeader == [kind |-> "text", nparts |-> 1, scheme |-> "Bearer", token |-> GarbageToken]
ThreeWordHeader == [kind |-> "text", nparts |-> 3, scheme |-> "Bearer", token |-> GarbageToken]
BasicHeader == [kind |-> "text", nparts |-> 2, scheme |-> "Basic", token |-> GarbageToken]
BearerHeader(s, tok) == [kind |-> "text", nparts |-> 2, scheme |-> s, token |-> tok]

Headers(toks) ==
    { NoHeader, EmptyHeader, BlankHeader, OneWordHeader, ThreeWordHeader,
      BasicHeader, BearerHeader("bearer", GarbageToken),
      BearerHeader("BEARER", GarbageToken) }
      \cup { BearerHeader("Bearer", tok) : tok \in toks }

\* ------------------------------------------------ the who-am-I endpoint
\* What GET https://api.github.com/user does when it is asked about the
\* access token of a request: an HTTP status, a timeout, or a transport
\* error.
UpstreamOutcomes ==
    { [kind |-> "response", status |-> st] : st \in {UPSTREAM_OK, 401} }
      \cup { [kind |-> "timeout", status |-> 0], [kind |-> "error", status |-> 0] }

\* ------------------------------------------------------------ PyJWT
\* Mutant of JwtDecode: the signature is not verified.
JwtDecodeUnverified(token, verifyExp, utcNow) ==
    IF token.form = "malformed"
      THEN [ok |-> FALSE, err |-> "DecodeError", payload |-> NoPayload]
    ELSE IF verifyExp /\ \E e \in token.payload.exp : e <= utcNow
      THEN [ok |-> FALSE, err |-> "ExpiredSignatureError", payload |-> NoPayload]
    ELSE [ok |-> TRUE, err |-> "", payload |-> token.payload]

\* jwt.decode(token, secret, algorithms, options): a token that is no JWT
\* or whose signature does not verify raises an InvalidTokenError; with
\* verify_exp, an exp claim that is not after the current UTC time raises
\* ExpiredSignatureError.
JwtDecode(token, verifyExp, utcNow) ==
    IF token.form = "malformed"
      THEN [ok |-> FALSE, err |-> "DecodeError", payload |-> NoPayload]
    ELSE IF token.form = "badsig"
      THEN [ok |-> FALSE, err |-> "InvalidSignatureError", payload |-> NoPayload]
    ELSE IF verifyExp /\ \E e \in token.payload.exp : e <= utcNow
      THEN [ok |-> FALSE, err |-> "ExpiredSignatureError", payload |-> NoPayload]
    ELSE [ok |-> TRUE, err |-> "", payload |-> token.payload]

\* jwt.encode(payload, secret, algorithm) with the secret that verifies.
JwtEncode(payload) == [form |-> "signed", payload |-> payload]

\* datetime.datetime.fromtimestamp(ts): the naive local wall-clock time of
\* a server tzMinutes east of UTC.
FromTimestamp(ts, tzMinutes) == ts + tzMinutes

\* --------------------------------------------------- token results
Invalid(msg) ==
    [status |-> "invalid", keys |-> {"status", "message"}, message |-> msg,
     payload |-> NoPayload, new_token |-> GarbageToken]

Valid(payload) ==
    [status |-> "valid", keys |-> {"status", "payload"}, message |-> "",
     payload |-> payload, new_token |-> GarbageToken]

Refreshed(payload, tok) ==
    [status |-> "refreshed", keys |-> {"status", "payload", "new_token"},
     message |-> "", payload |-> payload, new_token |-> tok]

NoResult ==
    [status |-> "none", keys |-> {}, message |-> "", payload |-> NoPayload,
     new_token |-> GarbageToken]

\* ------------------------------------------------ refresh protocol
\* Mutant of ValidateGithubToken: a non-200 status raises
\* (raise_for_status) instead of answering False.
ValidateGithubTokenRaising(outcome) ==
    [raised |-> outcome.kind = "response" /\ outcome.status # UPSTREAM_OK,
     value |-> (outcome.kind = "response" /\ outcome.status = UPSTREAM_OK)]

\* validate_github_token: True exactly on a 200; a timeout, a transport
\* error or any other exception is swallowed by the bare except.
ValidateGithubToken(outcome) ==
    [raised |-> FALSE,
     value |-> (outcome.kind = "response" /\ outcome.status = UPSTREAM_OK)]

\* A call that ended in an exception instead of a result.
Raised ==
    [status |-> "raised", keys |-> {}, message |-> "", payload |-> NoPayload,
     new_token |-> GarbageToken]

\* old_payload.get("scopes", []): the scopes a payload grants.
GetScopes(payload) ==
    IF payload.scopes = {} THEN << >> ELSE CHOOSE sc \in payload.scopes : TRUE

\* Mutant of NewPayload: the expiry is not extended.
NewPayloadNoExtension(old, t) ==
    [access_token |-> old.access_token,
     scopes |-> IF old.scopes = {} THEN {<< >>} ELSE old.scopes,
     user_id |-> old.user_id,
     iat |-> {t},
     exp |-> {t},
     type |-> {"github_token"},
     refreshed_at |-> {t}]

\* Mutant of NewPayload: the scopes are not carried over.
NewPayloadDefaultScopes(old, t) ==
    [access_token |-> old.access_token,
     scopes |-> {<< >>},
     user_id |-> old.user_id,
     iat |-> {t},
     exp |-> {t + REFRESH_EXPIRATION_HOURS * 60},
     type |-> {"github_token"},
     refreshed_at |-> {t}]

\* The payload refresh_token builds at UTC time t.
NewPayload(old, t) ==
    [access_token |-> old.access_token,
     scopes |-> {GetScopes(old)},
     user_id |-> old.user_id,
     iat |-> {t},
     exp |-> {t + REFRESH_EXPIRATION_HOURS * 60},
     type |-> {"github_token"},
     refreshed_at |-> {t}]

\* Mutant of RefreshToken: the access token is subscripted outside the try
\* block, so a payload without one raises KeyError.
RefreshTokenUnguarded(old, outcome, t) ==
    IF old.access_token = {}
      THEN Raised
    ELSE IF ~TruthyStr(old.access_token)
      THEN Invalid("No GitHub token found in JWT")
    ELSE IF outcome.kind = "response" /\ outcome.status = UPSTREAM_OK
      THEN Refreshed([access_token |-> old.access_token,
                      scopes |-> IF old.scopes = {} THEN {<< >>} ELSE old.scopes,
                      user_id |-> old.user_id, iat |-> {t},
                      exp |-> {t + REFRESH_EXPIRATION_HOURS * 60},
                      type |-> {"github_token"}, refreshed_at |-> {t}],
                     [form |-> "signed",
                      payload |-> [access_token |-> old.access_token,
                      scopes |-> IF old.scopes = {} THEN {<< >>} ELSE old.scopes,
                      user_id |-> old.user_id, iat |-> {t},
                      exp |-> {t + REFRESH_EXPIRATION_HOURS * 60},
                      type |-> {"github_token"}, refreshed_at |-> {t}]])
    ELSE Invalid("GitHub token is no longer valid")

\* refresh_token(old_payload), with the answer of the who-am-I endpoint
\* and the UTC time t at which the new credential is built.
RefreshToken(old, outcome, t) ==
    IF ~TruthyStr(old.access_token)
      THEN Invalid("No GitHub token found in JWT")
    ELSE LET is_valid == ValidateGithubToken(outcome) IN
      IF is_valid.raised
        THEN Invalid("Token refresh failed")
      ELSE IF ~is_valid.value
        THEN Invalid("GitHub token is no longer valid")
      ELSE Refreshed(NewPayload(old, t), JwtEncode(NewPayload(old, t)))

\* refresh_token awaits the who-am-I endpoint only for a truthy token.
RefreshCallsUpstream(old) == TruthyStr(old.access_token)

\* ------------------------------------------- validate_and_refresh_token
\* The part of validate_and_refresh_token that runs before refresh_token:
\* either it returns a result, or it hands a payload to refresh_token.
\* t is datetime.utcnow(), tzMinutes the server's offset from UTC.
Return(result) == [kind |-> "return", result |-> result, payload |-> NoPayload]
Refresh(payload) == [kind |-> "refresh", result |-> NoResult, payload |-> payload]

ValidationPath(token, t, tzMinutes) ==
    LET first == JwtDecode(token, FALSE, t) IN
    IF ~first.ok
      THEN Return(Invalid("Invalid token"))
    ELSE LET payload == first.payload IN
    IF ~TruthyNum(payload.exp)
      THEN Return(Invalid("Token missing expiration"))
    ELSE LET exp_datetime == FromTimestamp(CHOOSE e \in payload.exp : TRUE, tzMinutes)
             current_time == t
             time_until_expiry == exp_datetime - current_time
         IN
    IF current_time > exp_datetime
      THEN Refresh(payload)
    ELSE IF time_until_expiry * 60 < REFRESH_THRESHOLD_MINUTES * 60
      THEN Refresh(payload)
    ELSE LET strict == JwtDecode(token, TRUE, t) IN
    IF strict.ok
      THEN Return(Valid(payload))
    ELSE IF strict.err = "ExpiredSignatureError"
      THEN LET again == JwtDecode(token, FALSE, t) IN
           IF again.ok
             THEN Refresh(again.payload)
             ELSE Return(Invalid("Token expired and cannot be refreshed"))
    ELSE Return(Invalid("Invalid token"))

\* Whether validate_and_refresh_token awaits the who-am-I endpoint.
CallsUpstream(token, t, tzMinutes) ==
    LET p == ValidationPath(token, t, tzMinutes) IN
    p.kind = "refresh" /\ RefreshCallsUpstream(p.payload)

\* validate_and_refresh_token(token): t is datetime.utcnow() during the
\* call, outcome the answer of the who-am-I endpoint.
ValidateAndRefreshToken(token, t, tzMinutes, outcome) ==
    LET p == ValidationPath(token, t, tzMinutes) IN
    IF p.kind = "return" THEN p.result
    ELSE RefreshToken(p.payload, outcome, t)

\* ---------------------------------------------------------- dispatch
\* The gate's check of the Authorization header: "" when it is accepted,
\* else the error message of the 401.
HeaderError(h) ==
    IF h.kind \in {"absent", "empty"}
      THEN "Authorization header required"
    ELSE IF h.nparts # 2
      THEN "Invalid authorization header format"
    ELSE IF Lower(h.scheme) # "bearer"
      THEN "Invalid authentication scheme. Use Bearer token."
    ELSE ""

NoResponse == [sent |-> FALSE, status |-> 0, error |-> {}, new_token |-> {}, refreshed |-> {}]

\* Mutant of Unauthorized: the rejection is sent as 403.
UnauthorizedAsForbidden(msg) ==
    [sent |-> TRUE, status |-> 403, error |-> {msg}, new_token |-> {}, refreshed |-> {}]

\* JSONResponse(status_code=401, content={"error": msg})
Unauthorized(msg) ==
    [sent |-> TRUE, status |-> 401, error |-> {msg}, new_token |-> {}, refreshed |-> {}]

\* What the downstream handler answers.
HandlerStatuses == {200, 500}
HandlerResponse(st) ==
    [sent |-> TRUE, status |-> st, error |-> {}, new_token |-> {}, refreshed |-> {}]

\* Mutant of Attach: request.state.github_token is not written.
AttachUserOnly(result) ==
    [set |-> TRUE, user |-> result.payload, github_token |-> {}]

\* request.state before and after the gate has written to it.
NoContext == [set |-> FALSE, user |-> NoPayload, github_token |-> {}]
Attach(result) ==
    [set |-> TRUE, user |-> result.payload,
     github_token |-> result.payload.access_token]

\* Mutant of AddRefreshHeaders: the headers are added to successful
\* responses only.
AddRefreshHeadersOnSuccess(response, result) ==
    IF result.status = "refreshed" /\ response.status = 200
      THEN [response EXCEPT !.new_token = {result.new_token}, !.refreshed = {"true"}]
      ELSE response

\* The headers dispatch adds to the handler's response.
AddRefreshHeaders(response, result) ==
    IF result.status = "refreshed"
      THEN [response EXCEPT !.new_token = {result.new_token}, !.refreshed = {"true"}]
      ELSE response

\* Mutant of Skips: the exclude-all flag is ignored.
SkipsByPrefixOnly(exclude_all, path) == PathExcluded(path)

\* dispatch skips the gate for this request.
Skips(exclude_all, path) == exclude_all \/ PathExcluded(path)

\* The auth work dispatch does for a request: reading the Authorization
\* header, handing a token to jwt.decode, entering refresh_token.
AuthWork(exclude_all, path, h, t, tzMinutes) ==
    IF Skips(exclude_all, path) THEN {}
    ELSE IF HeaderError(h) # "" THEN {"header"}
    ELSE {"header", "decode"}
           \cup IF ValidationPath(h.token, t, tzMinutes).kind = "refresh"
                  THEN {"refresh"} ELSE {}

\* No who-am-I answer: the request carries no token for the gate to read.
NoOutcome == [kind |-> "none", status |-> 0]

NoRequest == [path |-> << >>, header |-> NoHeader, world |-> NoOutcome]

\* ------------------------------------------------------------- state
VARIABLES
    now,           \* UTC clock, minutes
    ticks,         \* clock advances so far
    tz,            \* the server's offset from UTC, minutes
    excludeAll,    \* self.exclude_all
    pc,            \* where dispatch stands: idle, upstream, handler, done
    req,           \* the request in dispatch, with what the who-am-I
                   \* endpoint answers for its token
    gate,          \* the gate's state for the request
    tokenResult,   \* what validate_and_refresh_token returned
    ctx,           \* request.state
    handlerSaw,    \* request.state when call_next was entered
    handlerCalls,  \* calls of call_next for the request
    upstreamCalls, \* who-am-I calls issued for the request
    resp,          \* the response dispatch returned
    held,          \* the token the client holds (from login or X-New-Token)
    authWork       \* the auth work dispatch did for the request

gateVars == <<now, ticks, tz, excludeAll, pc, req, gate, tokenResult, ctx,
              handlerSaw, handlerCalls, upstreamCalls, resp, held, authWork>>

\* The services behind the routes: one endpoint call at a time.
VARIABLES
    op,            \* the endpoint call in progress and where it stands
    task,          \* the sub-fetches handed to asyncio.gather: state and result
    loop,          \* the loop in progress: of get_repositories the page, all_repos
                   \* and the pages requested; of bulk-analyze the entries,
                   \* the position and the results
    sent,          \* requests issued to GitHub during the call, per endpoint
    battle,        \* the battle in progress: usernames, position, analyses
    reply          \* what the endpoint answered

svcVars == <<op, task, loop, sent, battle, reply>>

vars == <<gateVars, svcVars>>

NoCall == [name |-> "none", stage |-> "idle"]
NoLoop == [page |-> 0, all_repos |-> << >>, requested |-> << >>]
NoBattle == [endpoint |-> "", category |-> "", usernames |-> << >>, world |-> << >>,
             next |-> 0, analyses |-> << >>]

\* Python values the services pass around: a model record, a list, a
\* dict, a file tree, each with its items in order.
NoValue == [type |-> "none", items |-> << >>]
EmptyList == [type |-> "list", items |-> << >>]
EmptyDict == [type |-> "dict", items |-> << >>]
EmptyTree == [type |-> "tree", items |-> << >>]

\* How a call ends: it returns a value, raises fastapi.HTTPException with
\* a status code, or raises another exception.
Returned(v) == [ok |-> TRUE, exc |-> "", status |-> 0, value |-> v]
HTTPException(st) == [ok |-> FALSE, exc |-> "HTTPException", status |-> st, value |-> NoValue]
OtherException(name) == [ok |-> FALSE, exc |-> name, status |-> 0, value |-> NoValue]
NotRun == [ok |-> FALSE, exc |-> "", status |-> 0, value |-> NoValue]

NoReply == [sent |-> FALSE, status |-> 0, result |-> NotRun]

\* No endpoint call is in progress.
SvcIdle ==
    /\ op = NoCall
    /\ task = << >>
    /\ loop = NoLoop
    /\ sent = << >>
    /\ battle = NoBattle
    /\ reply = NoReply

TimeZones == { z * 60 : z \in (0 - MaxTz)..MaxTz }

\* The clock advances to just before the expiry of a credential minted
\* by refresh_token or by github_oauth_callback.
TickSteps ==
    { REFRESH_EXPIRATION_HOURS * 60 - HalfThreshold,
      JWT_EXPIRATION_HOURS * 60 - HalfThreshold }

Init ==
    /\ now = StartTime
    /\ ticks = 0
    /\ tz \in TimeZones
    /\ excludeAll = FALSE
    /\ pc = "idle"
    /\ req = NoRequest
    /\ gate = "none"
    /\ tokenResult = NoResult
    /\ ctx = NoContext
    /\ handlerSaw = NoContext
    /\ handlerCalls = 0
    /\ upstreamCalls = 0
    /\ resp = NoResponse
    /\ held = {}
    /\ authWork = {}
    /\ SvcIdle

\* Time passes between requests.
Tick ==
    /\ pc = "idle"
    /\ ticks < MaxTicks
    /\ \E d \in TickSteps : now' = now + d
    /\ ticks' = ticks + 1
    /\ UNCHANGED <<tz, excludeAll, pc, req, gate, tokenResult, ctx, handlerSaw,
                   handlerCalls, upstreamCalls, resp, held, authWork>>
    /\ UNCHANGED svcVars

\* main.py github_oauth_callback: the client obtains an initial credential.
InitialPayload(access_token, scopes, t) ==
    [access_token |-> {access_token}, scopes |-> {scopes}, user_id |-> {},
     iat |-> {t}, exp |-> {t + JWT_EXPIRATION_HOURS * 60},
     type |-> {"github_token"}, refreshed_at |-> {}]

Login ==
    /\ pc = "idle"
    /\ held = {}
    /\ held' = { JwtEncode(InitialPayload("gho_A", <<"public_repo", "read:user">>, now)) }
    /\ UNCHANGED <<now, ticks, tz, excludeAll, pc, req, gate, tokenResult, ctx,
                   handlerSaw, handlerCalls, upstreamCalls, resp, authWork>>
    /\ UNCHANGED svcVars

\* dispatch, from its entry to its first await on the outside world: the
\* who-am-I call of refresh_token, or call_next.  w is what the who-am-I
\* endpoint answers for the token of the request.
Dispatch(path, h, w) ==
    /\ (w = NoOutcome) <=> (Skips(excludeAll, path) \/ HeaderError(h) # "")
    /\ req' = [path |-> path, header |-> h, world |-> w]
    /\ authWork' = AuthWork(excludeAll, path, h, now, tz)
    /\ IF Skips(excludeAll, path)
         THEN /\ gate' = "Excluded"
              /\ pc' = "handler"
              /\ handlerCalls' = 1
              /\ handlerSaw' = ctx
              /\ UNCHANGED <<tokenResult, ctx, upstreamCalls, resp>>
       ELSE IF HeaderError(h) # ""
         THEN /\ gate' = "Rejected"
              /\ pc' = "done"
              /\ resp' = Unauthorized(HeaderError(h))
              /\ UNCHANGED <<tokenResult, ctx, handlerSaw, handlerCalls, upstreamCalls>>
       ELSE IF CallsUpstream(h.token, now, tz)
         THEN /\ gate' = "Refreshing"
              /\ pc' = "upstream"
              /\ upstreamCalls' = 1
              /\ UNCHANGED <<tokenResult, ctx, handlerSaw, handlerCalls, resp>>
       ELSE LET result == ValidateAndRefreshToken(h.token, now, tz, w) IN
            /\ tokenResult' = result
            /\ UNCHANGED upstreamCalls
            /\ IF result.status = "invalid"
                 THEN /\ gate' = "Rejected"
                      /\ pc' = "done"
                      /\ resp' = Unauthorized(result.message)
                      /\ UNCHANGED <<ctx, handlerSaw, handlerCalls>>
                 ELSE /\ gate' = "ValidPassthrough"
                      /\ pc' = "handler"
                      /\ ctx' = Attach(result)
                      /\ handlerSaw' = Attach(result)
                      /\ handlerCalls' = 1
                      /\ UNCHANGED resp
    /\ UNCHANGED <<now, ticks, tz, excludeAll, held>>
    /\ UNCHANGED svcVars

\* A request arrives with any of the headers a client can craft.
Receive ==
    /\ pc = "idle"
    /\ \E path \in RequestPaths, h \in Headers(CraftedTokens(now) \cup held),
          w \in UpstreamOutcomes \cup {NoOutcome} :
         Dispatch(path, h, w)

\* The who-am-I endpoint answers: refresh_token and
\* validate_and_refresh_token return, dispatch goes on to call_next or to
\* the 401.
UpstreamReply ==
    /\ pc = "upstream"
    /\ LET result == ValidateAndRefreshToken(req.header.token, now, tz, req.world) IN
       /\ tokenResult' = result
       /\ IF result.status = "invalid"
            THEN /\ gate' = "Rejected"
                 /\ pc' = "done"
                 /\ resp' = Unauthorized(result.message)
                 /\ UNCHANGED <<ctx, handlerSaw, handlerCalls>>
            ELSE /\ gate' = "RefreshedPassthrough"
                 /\ pc' = "handler"
                 /\ ctx' = Attach(result)
                 /\ handlerSaw' = Attach(result)
                 /\ handlerCalls' = 1
                 /\ UNCHANGED resp
    /\ UNCHANGED <<now, ticks, tz, excludeAll, req, upstreamCalls, held, authWork>>
    /\ UNCHANGED svcVars

\* call_next returns the handler's response; dispatch adds the refresh
\* headers and returns it.
HandlerReturn ==
    /\ pc = "handler"
    /\ \E st \in HandlerStatuses :
         resp' = IF gate = "Excluded"
                   THEN HandlerResponse(st)
                   ELSE AddRefreshHeaders(HandlerResponse(st), tokenResult)
    /\ pc' = "done"
    /\ UNCHANGED <<now, ticks, tz, excludeAll, req, gate, tokenResult, ctx,
                   handlerSaw, handlerCalls, upstreamCalls, held, authWork>>
    /\ UNCHANGED svcVars

\* The client receives the response and keeps a replacement credential.
Complete ==
    /\ pc = "done"
    /\ held' = IF resp.new_token # {} THEN resp.new_token ELSE held
    /\ pc' = "idle"
    /\ req' = NoRequest
    /\ gate' = "none"
    /\ tokenResult' = NoResult
    /\ ctx' = NoContext
    /\ handlerSaw' = NoContext
    /\ handlerCalls' = 0
    /\ upstreamCalls' = 0
    /\ resp' = NoResponse
    /\ authWork' = {}
    /\ UNCHANGED <<now, ticks, tz, excludeAll>>
    /\ UNCHANGED svcVars

Next == Tick \/ Login \/ Receive \/ UpstreamReply \/ HandlerReturn \/ Complete

Spec == Init /\ [][Next]_vars

\* ------------------------------------------- the gate before the routes
\* The gate in front of every route of the application, installed with
\* either value of exclude_all, and clients that send no header, a wrong
\* scheme, a string that is no JWT, or the credential they hold.
RouteHeaders(toks) ==
    { NoHeader, BasicHeader, BearerHeader("Bearer", GarbageToken) }
      \cup { BearerHeader("Bearer", tok) : tok \in toks }

InitRoutes ==
    /\ now = StartTime
    /\ ticks = 0
    /\ tz \in TimeZones
    /\ excludeAll \in BOOLEAN
    /\ pc = "idle"
    /\ req = NoRequest
    /\ gate = "none"
    /\ tokenResult = NoResult
    /\ ctx = NoContext
    /\ handlerSaw = NoContext
    /\ handlerCalls = 0
    /\ upstreamCalls = 0
    /\ resp = NoResponse
    /\ held = {}
    /\ authWork = {}
    /\ SvcIdle

ReceiveRoute ==
    /\ pc = "idle"
    /\ \E r \in AppRoutes, h \in RouteHeaders(held),
          w \in UpstreamOutcomes \cup {NoOutcome} :
         Dispatch(r.path, h, w)

NextRoutes ==
    Tick \/ Login \/ ReceiveRoute \/ UpstreamReply \/ HandlerReturn \/ Complete

SpecRoutes == InitRoutes /\ [][NextRoutes]_vars

\* ------------------------------------------------ the Remote API client
\* What GitHub does with one GET: a status with a JSON body, a success
\* whose body is no JSON, a timeout, or a transport error.
RemoteAnswers ==
    { [kind |-> "response", status |-> st, body |-> "json"] : st \in {200, 404, 403, 502} }
      \cup { [kind |-> "response", status |-> 200, body |-> "text"],
             [kind |-> "timeout", status |-> 0, body |-> ""],
             [kind |-> "error", status |-> 0, body |-> ""] }

\* httpx.Response.is_success
IsSuccess(st) == st \in 200..299

\* Mutant of MakeRequest: every failure is reported as 404.
MakeRequestAlwaysNotFound(ans, data) ==
    IF ans.kind = "response" /\ IsSuccess(ans.status) /\ ans.body = "json"
      THEN Returned(data)
      ELSE HTTPException(404)

\* github_base._make_request: data is the JSON the endpoint holds.
MakeRequest(ans, data) ==
    IF ans.kind = "timeout" THEN HTTPException(408)
    ELSE IF ans.kind = "error" THEN HTTPException(500)
    ELSE IF ans.status = 404 THEN HTTPException(404)
    ELSE IF ans.status = 403 THEN HTTPException(403)
    ELSE IF ~IsSuccess(ans.status) THEN HTTPException(ans.status)
    ELSE IF ans.body # "json" THEN OtherException("JSONDecodeError")
    ELSE Returned(data)

\* The number of requests issued to an endpoint during the call.
Sent(endpoint) == IF endpoint \in DOMAIN sent THEN sent[endpoint] ELSE 0

Issue(endpoint) ==
    [e \in DOMAIN sent \cup {endpoint} |-> IF e = endpoint THEN Sent(e) + 1 ELSE sent[e]]

\* ------------------------------------------------- profile analysis
\* What GitHub holds behind each endpoint: the profile and the events of
\* the user, the repository with its languages, contributors, commits,
\* issues, README and git tree.  The user has total repositories,
\* numbered 1..total in the order of the listing; a run of consecutive
\* repositories is one item [from, to] of a list.
Holds(endpoint) ==
    CASE endpoint = "user" -> [type |-> "record", items |-> <<"octocat">>]
      [] endpoint = "events" -> [type |-> "list", items |-> <<"PushEvent", "WatchEvent">>]
      [] endpoint = "repo" -> [type |-> "record", items |-> <<"octocat/hello">>]
      [] endpoint = "languages" -> [type |-> "dict", items |-> <<"Python">>]
      [] endpoint = "contributors" -> [type |-> "list", items |-> <<"alice", "bob">>]
      [] endpoint = "commits" -> [type |-> "list", items |-> <<"c1", "c2">>]
      [] endpoint = "issues" -> [type |-> "list", items |-> <<"open", "closed">>]
      [] endpoint = "readme" -> [type |-> "record", items |-> <<"# hello">>]
      [] endpoint = "git_tree" ->
           [type |-> "tree",
            items |-> << [path |-> "README.md", type |-> "blob"],
                         [path |-> "src", type |-> "tree"],
                         [path |-> "src/main.py", type |-> "blob"] >>]

Min(a, b) == IF a < b THEN a ELSE b

RepoTotals ==
    { k * PER_PAGE + d : k \in 0..MaxPages, d \in {0 - 1, 0, 1} } \cap Nat

\* GET /users/{username}/repos?page=page&per_page=100
ReposPage(total, page) ==
    [type |-> "list",
     items |-> IF total > (page - 1) * PER_PAGE
                 THEN << [from |-> (page - 1) * PER_PAGE + 1,
                          to |-> Min(page * PER_PAGE, total)] >>
                 ELSE << >>]

\* len() of a list of runs.
RECURSIVE RunsLen(_)
RunsLen(items) ==
    IF items = << >> THEN 0
    ELSE (Head(items).to - Head(items).from + 1) + RunsLen(Tail(items))

\* get_profile and get_user_events.
GetProfile(ans) == MakeRequest(ans, Holds("user"))

GetUserEvents(ans) ==
    LET r == MakeRequest(ans, Holds("events")) IN
    IF r.ok THEN r ELSE Returned(EmptyList)

\* GitHub did not answer the request with a success carrying JSON.
Failure(ans) == ~(ans.kind = "response" /\ ans.status \in 200..299 /\ ans.body = "json")

\* A task of the gather: where it stands, how it ended, whether a request
\* of it failed and, for the mandatory fetch and for the primary path of
\* the file tree, the answer GitHub gave last.  For the file tree, failed
\* tells that the first request of the contents walk failed.
NoAnswer == [kind |-> "none", status |-> 0, body |-> ""]
Running == [state |-> "running", result |-> NotRun, answer |-> NoAnswer, failed |-> FALSE]
Done(result, ans) ==
    [state |-> "done", result |-> result, answer |-> NoAnswer, failed |-> Failure(ans)]
DoneWith(result, ans) ==
    [state |-> "done", result |-> result, answer |-> ans, failed |-> Failure(ans)]

\* Mutant of AllDone: the join returns as soon as one task has raised, as
\* asyncio.gather does without return_exceptions.
AllDoneOrOneRaised ==
    \/ \A n \in DOMAIN task : task[n].state = "done"
    \/ \E n \in DOMAIN task : task[n].state = "done" /\ ~task[n].result.ok

\* asyncio.gather(..., return_exceptions=True) returns.
AllDone == \A n \in DOMAIN task : task[n].state = "done"

ProfileTasks == {"profile", "repositories", "events"}

\* The route handler: get_github_token_from_request, then the service.
\* total is the number of repositories GitHub lists for the user.
AnalyzeProfileRoute ==
    /\ op = NoCall
    /\ \E hasToken \in BOOLEAN, total \in RepoTotals :
         IF hasToken
           THEN /\ op' = [name |-> "analyze_profile", stage |-> "gather", total |-> total,
                        readme |-> "none"]
                /\ task' = [n \in ProfileTasks |-> Running]
                /\ loop' = [page |-> 1, all_repos |-> << >>, requested |-> << >>]
                /\ UNCHANGED reply
           ELSE /\ op' = [name |-> "analyze_profile", stage |-> "done", total |-> total,
                        readme |-> "none"]
                /\ reply' = [sent |-> TRUE, status |-> 401, result |-> HTTPException(401)]
                /\ UNCHANGED <<task, loop>>
    /\ UNCHANGED <<sent, battle, gateVars>>

InGather(name, n) ==
    /\ op.name = name
    /\ op.stage = "gather"
    /\ task[n].state = "running"

ProfileFetched ==
    /\ InGather("analyze_profile", "profile")
    /\ \E ans \in RemoteAnswers :
         task' = [task EXCEPT !["profile"] = DoneWith(GetProfile(ans), ans)]
    /\ sent' = Issue("user")
    /\ UNCHANGED <<op, loop, battle, reply, gateVars>>

EventsFetched ==
    /\ InGather("analyze_profile", "events")
    /\ \E ans \in RemoteAnswers :
         task' = [task EXCEPT !["events"] = Done(GetUserEvents(ans), ans)]
    /\ sent' = Issue("events")
    /\ UNCHANGED <<op, loop, battle, reply, gateVars>>

\* Mutant of LastPage: a full page ends the listing too.
LastPageOrFull(n) == n <= PER_PAGE

\* get_repositories line 40: the page just read was the last one.
LastPage(n) == n < PER_PAGE

\* Mutant of PageFailed: get_repositories returns the pages it has.
PageFailedKeepsPages(all_repos, repos_data) ==
    Returned([type |-> "list", items |-> all_repos])

\* get_repositories when _make_request raises: nothing catches the
\* exception, and the pages fetched so far are lost with the call.
PageFailed(all_repos, repos_data) == repos_data

\* One turn of the loop of get_repositories: the request for the page,
\* and what the loop does with the answer.
PageFetched ==
    /\ InGather("analyze_profile", "repositories")
    /\ \E ans \in RemoteAnswers :
         LET repos_data == MakeRequest(ans, ReposPage(op.total, loop.page))
             requested == Append(loop.requested, loop.page)
             all_repos == loop.all_repos \o repos_data.value.items
         IN
         IF ~repos_data.ok
           THEN /\ task' = [task EXCEPT !["repositories"] =
                              Done(PageFailed(loop.all_repos, repos_data), ans)]
                /\ loop' = [loop EXCEPT !.requested = requested]
         ELSE IF repos_data.value.items = << >>
           THEN /\ task' = [task EXCEPT !["repositories"] =
                              Done(Returned([type |-> "list", items |-> loop.all_repos]), ans)]
                /\ loop' = [loop EXCEPT !.requested = requested]
         ELSE IF LastPage(RunsLen(repos_data.value.items))
           THEN /\ task' = [task EXCEPT !["repositories"] =
                              Done(Returned([type |-> "list", items |-> all_repos]), ans)]
                /\ loop' = [loop EXCEPT !.requested = requested, !.all_repos = all_repos]
         ELSE /\ loop' = [page |-> loop.page + 1, all_repos |-> all_repos,
                          requested |-> requested]
              /\ UNCHANGED task
    /\ sent' = Issue("repos")
    /\ UNCHANGED <<op, battle, reply, gateVars>>

\* Python's seq[:n]
Take(seq, n) == SubSeq(seq, 1, Min(n, Len(seq)))

RECURSIVE CountOf(_, _)
CountOf(items, x) ==
    IF items = << >> THEN 0
    ELSE (IF Head(items) = x THEN 1 ELSE 0) + CountOf(Tail(items), x)

\* Mutant of MergeProfile: an unavailable repository list is fatal too.
MergeProfileStrict(profile, repositories, events) ==
    IF ~profile.ok THEN profile
    ELSE IF ~repositories.ok THEN repositories
    ELSE Returned([type |-> "analysis", items |-> << >>,
                   profile |-> profile.value,
                   repositories |-> repositories.value,
                   events |-> IF events.ok THEN events.value ELSE EmptyList,
                   stats |-> [total_repos |-> RunsLen(repositories.value.items)],
                   activity_metrics |-> [total_commits |-> 0]])

\* analyze_profile after the gather: the exceptions are handled and the
\* metrics calculated.  An event of type PushEvent carries one commit.
MergeProfile(profile, repositories, events) ==
    IF ~profile.ok THEN profile
    ELSE LET repos == IF repositories.ok THEN repositories.value ELSE EmptyList
             evts == IF events.ok THEN events.value ELSE EmptyList
         IN Returned([type |-> "analysis", items |-> << >>,
                      profile |-> profile.value,
                      repositories |-> repos,
                      events |-> evts,
                      stats |-> [total_repos |-> RunsLen(repos.items)],
                      activity_metrics |->
                          [total_commits |-> CountOf(evts.items, "PushEvent")]])

\* The try/except of the analyze routes: an HTTPException keeps its
\* status, any other exception becomes a 500.
AnalysisResponse(result) ==
    [sent |-> TRUE,
     status |-> IF result.ok THEN 200
                ELSE IF result.exc = "HTTPException" THEN result.status
                ELSE 500,
     result |-> result]

ProfileJoined ==
    /\ op.name = "analyze_profile"
    /\ op.stage = "gather"
    /\ AllDone
    /\ reply' = AnalysisResponse(MergeProfile(task["profile"].result,
                                              task["repositories"].result,
                                              task["events"].result))
    /\ op' = [op EXCEPT !.stage = "done"]
    /\ UNCHANGED <<task, loop, sent, battle, gateVars>>

\* The response has left; the services are idle again.
CallReturns ==
    /\ op.stage = "done"
    /\ op' = NoCall
    /\ task' = << >>
    /\ loop' = NoLoop
    /\ sent' = << >>
    /\ battle' = NoBattle
    /\ reply' = NoReply
    /\ UNCHANGED gateVars

\* ----------------------------------------------- repository analysis
\* The directories of the repository as the contents API lists them.
Directories == {"", "src"}
Contents(path) ==
    IF path = ""
      THEN << [path |-> "README.md", type |-> "file"], [path |-> "src", type |-> "dir"] >>
    ELSE IF path = "src"
      THEN << [path |-> "src/main.py", type |-> "file"] >>
    ELSE << >>

OptionalTasks == {"languages", "contributors", "commits", "issues"}
RepositoryTasks == {"repo_info", "tree"} \cup OptionalTasks

\* What an optional fetch makes of the JSON: the contributors are cut
\* to the first 20.
DataOf(n) ==
    IF n = "contributors"
      THEN [Holds(n) EXCEPT !.items = Take(@, 20)]
      ELSE Holds(n)

\* Mutant of DefaultOf: every default is the empty list.
DefaultAlwaysList(n) == EmptyList

DefaultOf(n) ==
    CASE n = "languages" -> EmptyDict
      [] n = "tree" -> EmptyTree
      [] OTHER -> EmptyList

\* get_repository_info
GetRepositoryInfo(ans) == MakeRequest(ans, Holds("repo"))

\* get_languages, get_contributors, get_recent_commits, get_issues: an
\* HTTPException is answered with the empty default.
GetOptional(n, ans) ==
    LET r == MakeRequest(ans, DataOf(n)) IN
    IF ~r.ok /\ r.exc = "HTTPException" THEN Returned(DefaultOf(n)) ELSE r

\* get_file_content for README.md
GetFileContent(ans) ==
    LET r == MakeRequest(ans, Holds("readme")) IN
    IF ~r.ok /\ r.exc = "HTTPException" THEN Returned(NoValue) ELSE r

\* _get_tree_from_contents: the items of the tree under path, answers
\* giving what GitHub does with the request for each directory.
RECURSIVE TreeFromContents(_, _)
RECURSIVE WalkItems(_, _)
TreeFromContents(path, answers) ==
    LET contents == MakeRequest(answers[path], [type |-> "list", items |-> Contents(path)]) IN
    IF contents.ok THEN WalkItems(contents.value.items, answers) ELSE << >>

WalkItems(items, answers) ==
    IF items = << >> THEN << >>
    ELSE LET item == Head(items)
             tree_item == [path |-> item.path,
                           type |-> IF item.type = "dir" THEN "tree" ELSE "blob"]
         IN <<tree_item>>
              \o (IF item.type = "dir" THEN TreeFromContents(item.path, answers) ELSE << >>)
              \o WalkItems(Tail(items), answers)

\* The requests the walk issues: one for the root, one for each
\* directory listed by a request that succeeded.
ContentsRequests(answers) ==
    1 + CountOf([i \in 1..Len(TreeFromContents("", answers)) |->
                    TreeFromContents("", answers)[i].type], "tree")

\* The route handler of /analyze/{owner}/{repo}.
AnalyzeRepositoryRoute ==
    /\ op = NoCall
    /\ \E hasToken \in BOOLEAN :
         IF hasToken
           THEN /\ op' = [name |-> "analyze_repository", stage |-> "gather", total |-> 0,
                        readme |-> "none"]
                /\ task' = [n \in RepositoryTasks |-> Running]
                /\ UNCHANGED reply
           ELSE /\ op' = [name |-> "analyze_repository", stage |-> "done", total |-> 0,
                        readme |-> "none"]
                /\ reply' = [sent |-> TRUE, status |-> 401, result |-> HTTPException(401)]
                /\ UNCHANGED task
    /\ UNCHANGED <<loop, sent, battle, gateVars>>

RepoInfoFetched ==
    /\ InGather("analyze_repository", "repo_info")
    /\ \E ans \in RemoteAnswers :
         task' = [task EXCEPT !["repo_info"] = DoneWith(GetRepositoryInfo(ans), ans)]
    /\ sent' = Issue("repo")
    /\ UNCHANGED <<op, loop, battle, reply, gateVars>>

OptionalFetched ==
    \E n \in OptionalTasks :
        /\ InGather("analyze_repository", n)
        /\ \E ans \in RemoteAnswers :
             task' = [task EXCEPT ![n] = Done(GetOptional(n, ans), ans)]
        /\ sent' = Issue(n)
        /\ UNCHANGED <<op, loop, battle, reply, gateVars>>

\* Mutant of FallsBack: every HTTPException falls back to the contents.
FallsBackOnAnyError(r) == ~r.ok /\ r.exc = "HTTPException"

\* get_repository_tree line 112
FallsBack(r) == ~r.ok /\ r.exc = "HTTPException" /\ r.status = 404

\* How get_repository_tree goes on after a request of its primary path:
\* to the next request, to the contents walk, or to its end.
AfterPrimary(r, ans, next) ==
    [state |-> IF r.ok THEN next ELSE IF FallsBack(r) THEN "contents" ELSE "done",
     result |-> IF r.ok \/ r.exc = "HTTPException" THEN r ELSE Returned(EmptyTree),
     answer |-> ans,
     failed |-> FALSE]

\* get_repository_tree: the lookup of the default branch returns.
TreeBranchLooked ==
    /\ InGather("analyze_repository", "tree")
    /\ \E ans \in RemoteAnswers :
         task' = [task EXCEPT !["tree"] = AfterPrimary(MakeRequest(ans, Holds("repo")), ans, "git_tree")]
    /\ sent' = Issue("repo")
    /\ UNCHANGED <<op, loop, battle, reply, gateVars>>

\* get_repository_tree: the recursive git-tree call returns.
GitTreeFetched ==
    /\ op.name = "analyze_repository"
    /\ op.stage = "gather"
    /\ task["tree"].state = "git_tree"
    /\ \E ans \in RemoteAnswers :
         task' = [task EXCEPT !["tree"] = AfterPrimary(MakeRequest(ans, Holds("git_tree")), ans, "done")]
    /\ sent' = Issue("git_tree")
    /\ UNCHANGED <<op, loop, battle, reply, gateVars>>

\* get_repository_tree: the walk over the contents API, to its end.
ContentsWalked ==
    /\ op.name = "analyze_repository"
    /\ op.stage = "gather"
    /\ task["tree"].state = "contents"
    /\ \E answers \in [Directories -> RemoteAnswers] :
         /\ task' = [task EXCEPT !["tree"] =
                       [state |-> "done",
                        result |-> Returned([type |-> "tree",
                                             items |-> TreeFromContents("", answers)]),
                        answer |-> task["tree"].answer,
                        failed |-> Failure(answers[""])]]
         /\ sent' = [e \in DOMAIN sent \cup {"contents"} |->
                       IF e = "contents" THEN ContentsRequests(answers) ELSE sent[e]]
    /\ UNCHANGED <<op, loop, battle, reply, gateVars>>

\* results[i] if not isinstance(results[i], Exception) else default
OrDefault(n) == IF task[n].result.ok THEN task[n].result.value ELSE DefaultOf(n)

\* analyze_repository after the gather, up to the request for the README.
RepositoryJoined ==
    /\ op.name = "analyze_repository"
    /\ op.stage = "gather"
    /\ AllDone
    /\ IF task["repo_info"].result.ok
         THEN /\ op' = [op EXCEPT !.stage = "readme"]
              /\ UNCHANGED reply
         ELSE /\ op' = [op EXCEPT !.stage = "done"]
              /\ reply' = AnalysisResponse(HTTPException(404))
    /\ UNCHANGED <<task, loop, sent, battle, gateVars>>

HasReadme(tree) == \E i \in 1..Len(tree.items) : tree.items[i].path = "README.md"

\* analyze_repository from the README to the record it returns; an
\* exception that is no HTTPException leaves it as a 500.
RepositoryAnalysisOf(readme) ==
    IF ~readme.ok
      THEN HTTPException(500)
      ELSE Returned([type |-> "analysis", items |-> << >>,
                     repository |-> task["repo_info"].result.value,
                     languages |-> OrDefault("languages"),
                     contributors |-> OrDefault("contributors"),
                     recent_commits |-> Take(OrDefault("commits").items, 10),
                     issues_summary |-> [total |-> Len(OrDefault("issues").items)],
                     tree |-> OrDefault("tree"),
                     code_quality |-> [has_readme |-> HasReadme(OrDefault("tree"))]])

ReadmeFetched ==
    /\ op.name = "analyze_repository"
    /\ op.stage = "readme"
    /\ \E ans \in RemoteAnswers :
         /\ reply' = AnalysisResponse(RepositoryAnalysisOf(GetFileContent(ans)))
         /\ op' = [op EXCEPT !.stage = "done",
                              !.readme = IF GetFileContent(ans).ok THEN "returned" ELSE "raised"]
    /\ sent' = Issue("readme")
    /\ UNCHANGED <<task, loop, battle, gateVars>>

InitAnalysis == Init /\ tz = 0

NextAnalysis ==
    \/ AnalyzeProfileRoute \/ ProfileFetched \/ EventsFetched \/ PageFetched
    \/ ProfileJoined
    \/ AnalyzeRepositoryRoute \/ RepoInfoFetched \/ OptionalFetched
    \/ TreeBranchLooked \/ GitTreeFetched \/ ContentsWalked
    \/ RepositoryJoined \/ ReadmeFetched
    \/ CallReturns

SpecAnalysis == InitAnalysis /\ [][NextAnalysis]_vars

\* ------------------------------------------------------ bulk analysis
\* The entries of a bulk request: dicts that may lack "owner" or "repo"
\* (the empty set) or hold an empty string.
RepoEntries ==
    { [owner |-> {"octocat"}, repo |-> {"hello"}],
      [owner |-> {"octocat"}, repo |-> {"gone"}],
      [owner |-> {}, repo |-> {"hello"}],
      [owner |-> {"octocat"}, repo |-> {""}] }

RepositoryLists ==
    UNION { [1..n -> RepoEntries] : n \in 0..MaxRepos }
      \cup { [i \in 1..n |-> [owner |-> {"octocat"}, repo |-> {"hello"}]] :
               n \in {MAX_BULK, MAX_BULK + 1} }

\* How repository_analyzer.analyze_repository may end: with the analysis,
\* with the 404 of a repository whose info could not be fetched, or with
\* the 500 it makes of any other exception.
AnalyzeRepositoryOutcomes ==
    { Returned([type |-> "analysis", items |-> << >>]),
      HTTPException(404), HTTPException(500) }

\* if not owner or not repo: continue
Named(entry) == TruthyStr(entry.owner) /\ TruthyStr(entry.repo)

\* f"{owner}/{repo}"
FullName(entry) ==
    <<CHOOSE o \in entry.owner : TRUE, "/", CHOOSE r \in entry.repo : TRUE>>

\* Mutant of BulkAppend: a failed analysis leaves no entry.
BulkAppendSuccessOnly(results, entry, outcome) ==
    IF ~Named(entry) \/ ~outcome.ok THEN results
    ELSE Append(results, [repository |-> FullName(entry), status |-> "success",
                          analysis |-> {outcome.value}, error |-> {}])

\* The body of the loop of bulk_analyze_repositories.
BulkAppend(results, entry, outcome) ==
    IF ~Named(entry) THEN results
    ELSE IF outcome.ok
      THEN Append(results, [repository |-> FullName(entry), status |-> "success",
                            analysis |-> {outcome.value}, error |-> {}])
    ELSE Append(results, [repository |-> FullName(entry), status |-> "failed",
                          analysis |-> {}, error |-> {outcome.status}])

NotAnalysed == [ok |-> FALSE, exc |-> "skipped", status |-> 0, value |-> NoValue]

\* The route handler of /bulk-analyze up to its loop: more than 5
\* entries are refused with 400 before the try block; the 401 of a
\* missing token is raised inside it and leaves as a 500.
BulkAnalyzeRoute ==
    /\ op = NoCall
    /\ \E repositories \in RepositoryLists, hasToken \in BOOLEAN :
         /\ loop' = [repositories |-> repositories, next |-> 1, results |-> << >>,
                     met |-> << >>]
         /\ IF Len(repositories) > MAX_BULK
              THEN /\ op' = [name |-> "bulk_analyze", stage |-> "done"]
                   /\ reply' = [sent |-> TRUE, status |-> 400, result |-> HTTPException(400)]
            ELSE IF ~hasToken
              THEN /\ op' = [name |-> "bulk_analyze", stage |-> "done"]
                   /\ reply' = [sent |-> TRUE, status |-> 500, result |-> HTTPException(401)]
            ELSE /\ op' = [name |-> "bulk_analyze", stage |-> "loop"]
                 /\ UNCHANGED reply
    /\ UNCHANGED <<task, sent, battle, gateVars>>

\* One turn of the loop: the entry is skipped, or analysed and its
\* result appended.  loop.met records how the analysis of each entry
\* ended.
BulkAnalysed ==
    /\ op.name = "bulk_analyze"
    /\ op.stage = "loop"
    /\ loop.next <= Len(loop.repositories)
    /\ LET entry == loop.repositories[loop.next] IN
       \E outcome \in IF Named(entry) THEN AnalyzeRepositoryOutcomes ELSE {NotAnalysed} :
         /\ loop' = [loop EXCEPT !.next = @ + 1,
                                 !.results = BulkAppend(@, entry, outcome),
                                 !.met = Append(@, outcome)]
         /\ sent' = IF Named(entry) THEN Issue("repo") ELSE sent
    /\ UNCHANGED <<op, task, battle, reply, gateVars>>

\* len([r for r in results if r.get("status") == "success"])
TotalAnalyzed(results) ==
    Cardinality({ i \in 1..Len(results) : results[i].status = "success" })

BulkFinished ==
    /\ op.name = "bulk_analyze"
    /\ op.stage = "loop"
    /\ loop.next > Len(loop.repositories)
    /\ reply' = [sent |-> TRUE, status |-> 200,
                 result |-> Returned([type |-> "bulk", items |-> loop.results,
                                      total_analyzed |-> TotalAnalyzed(loop.results)])]
    /\ op' = [op EXCEPT !.stage = "done"]
    /\ UNCHANGED <<task, loop, sent, battle, gateVars>>

NextBulk == BulkAnalyzeRoute \/ BulkAnalysed \/ BulkFinished \/ CallReturns

SpecBulk == InitAnalysis /\ [][NextBulk]_vars

\* ------------------------------------------- the refresh endpoint
\* The attributes of the class JWTAuthMiddleware, its methods, and those
\* __init__ adds to an instance of it.
ClassAttributes ==
    {"dispatch", "validate_and_refresh_token", "refresh_token", "validate_github_token"}

InstanceAttributes ==
    ClassAttributes \cup {"jwt_secret", "jwt_algorithm", "refresh_threshold_minutes",
                          "exclude_paths", "exclude_all"}

\* validate_and_refresh_token called with self bound to an object of the
\* given attributes: reading self.jwt_secret for the first jwt.decode
\* raises AttributeError when the object has none, and no except clause
\* of the method catches it.
ValidateAndRefreshTokenOf(attributes, token, t, tzMinutes, outcome) ==
    IF "jwt_secret" \notin attributes \/ "jwt_algorithm" \notin attributes
      THEN OtherException("AttributeError")
      ELSE Returned(ValidateAndRefreshToken(token, t, tzMinutes, outcome))

\* main.py refresh_token: the method is called on the class itself
\* (self=JWTAuthMiddleware); an HTTPException is raised again, any other
\* exception is answered with 500.
RefreshResponse(old_token, t, tzMinutes, outcome) ==
    LET token == ValidateAndRefreshTokenOf(ClassAttributes, old_token, t, tzMinutes, outcome) IN
    IF ~token.ok
      THEN [sent |-> TRUE, status |-> 500, result |-> token]
    ELSE IF token.value.status = "refreshed"
      THEN [sent |-> TRUE, status |-> 200,
            result |-> Returned([type |-> "GitHubAuthResponse", items |-> << >>,
                                 access_token |-> token.value.new_token,
                                 scopes |-> GetScopes(token.value.payload)])]
    ELSE [sent |-> TRUE, status |-> 401, result |-> HTTPException(401)]

\* POST /api/auth/refresh?old_token=...
RefreshTokenRoute ==
    /\ op = NoCall
    /\ pc = "idle"
    /\ \E old_token \in CraftedTokens(now) \cup held \cup {GarbageToken},
          outcome \in UpstreamOutcomes :
         /\ op' = [name |-> "refresh_token", stage |-> "done",
                   old_token |-> old_token, world |-> outcome]
         /\ reply' = RefreshResponse(old_token, now, tz, outcome)
    /\ UNCHANGED <<task, loop, sent, battle, gateVars>>

NextRefresh == Tick \/ Login \/ RefreshTokenRoute \/ CallReturns

SpecRefresh == Init /\ [][NextRefresh]_vars

\* ------------------------------------------------------------ scoring
\* Scores are counted in hundredths of a point, as round(x, 2) leaves
\* them; stats.avg_stars_per_repo and stats.follower_to_following_ratio
\* are counted in hundredths and languages.language_diversity_score in
\* thousandths, as calculate_profile_stats and calculate_language_stats
\* round them.  Before it is rounded a sub-term is counted in units of
\* 1/UnitsPerPoint of a point, which every quotient of
\* calculate_battle_score is a whole number of.
UnitsPerPoint == 300

\* The n-th value of an input: 0, 1, big, 2 * big, ...
Ladder(n, big) == IF n < 2 THEN n ELSE (n - 1) * big

\* The ProfileAnalysis records scored: what calculate_battle_score reads
\* of the analysis, each group of inputs at every level of its ladder.
AnalysisRecord(repos, stars, followers, commits, diversity) ==
    [total_repos |-> Ladder(repos, 30),
     top_repositories |-> Min(Ladder(repos, 30), 5),
     total_stars |-> Ladder(stars, 250),
     avg_stars_per_repo |-> Ladder(stars, 50),
     followers |-> Ladder(followers, 100),
     follower_to_following_ratio |-> Ladder(followers, 100),
     recent_commits |-> Ladder(commits, 100),
     active_days |-> Min(Ladder(commits, 30), 30),
     total_commits |-> Ladder(commits, 500),
     language_diversity_score |-> Ladder(diversity, 5)]

AnalysisRecords ==
    { AnalysisRecord(r, s, f, c, d) : r \in 0..MaxLevel, s \in 0..MaxLevel,
                                      f \in 0..MaxLevel, c \in 0..MaxLevel,
                                      d \in 0..MaxLevel }

BattleTypes == {"comprehensive", "technical", "social", "activity"}

\* Mutant of Term: the sub-term is not capped.
TermUncapped(num, den, cap) == (num * UnitsPerPoint) \div den

\* min((num / den), cap), in units.
Term(num, den, cap) == Min((num * UnitsPerPoint) \div den, cap * UnitsPerPoint)

\* round(x, 2) of a number of units, in hundredths.  A number of units
\* is never half way between two hundredths.
Round2(units) == (units * 100 + UnitsPerPoint \div 2) \div UnitsPerPoint

\* calculate_battle_score: the four sub-terms of the battle type, in
\* units.
SubTerms(analysis, battle_type) ==
    CASE battle_type = "technical" ->
           [quality |-> Term(analysis.total_stars * 40, 200, 40),
            consistency |-> Term(analysis.language_diversity_score * 100 * 30, 1000, 30),
            activity |-> Term(analysis.total_repos * 20, 30, 20),
            impact |-> Term(analysis.avg_stars_per_repo * 10, 100, 10)]
      [] battle_type = "social" ->
           [impact |-> Term(analysis.followers * 50, 100, 50),
            quality |-> Term(analysis.follower_to_following_ratio * 20, 100, 20),
            activity |-> Term(analysis.recent_commits * 20, 100, 20),
            consistency |-> Term(analysis.top_repositories * 2, 1, 10)]
      [] battle_type = "activity" ->
           [activity |-> Term(analysis.recent_commits * 40, 50, 40),
            consistency |-> Term(analysis.active_days * 30, 30, 30),
            quality |-> Term(analysis.total_repos * 20, 20, 20),
            impact |-> Term(analysis.total_commits * 10, 500, 10)]
      [] OTHER ->
           [activity |-> Term(analysis.total_repos * 25, 20, 25),
            quality |-> Term(analysis.total_stars * 30, 100, 30),
            impact |-> Term(analysis.followers * 25, 50, 25),
            consistency |-> Term(analysis.language_diversity_score * 100 * 20, 1000, 20)]

\* calculate_battle_score: the BattleScore, in hundredths.
CalculateBattleScore(analysis, battle_type) ==
    LET t == SubTerms(analysis, battle_type)
        total == t.activity + t.quality + t.impact + t.consistency
    IN [total |-> Round2(total),
        activity |-> Round2(t.activity),
        quality |-> Round2(t.quality),
        impact |-> Round2(t.impact),
        consistency |-> Round2(t.consistency)]

\* ------------------------------------------------------------ battles
Users == <<"a", "b", "c">>

\* The list of n names a, b, c, a, b, ...
Cycle(n) == [i \in 1..n |-> Users[((i - 1) % Len(Users)) + 1]]

UsernameLists ==
    UNION { [1..n -> {Users[i] : i \in 1..Len(Users)}] : n \in 0..MaxNames }
      \cup { Cycle(n) : n \in { MAX_BATTLE_USERS, MAX_BATTLE_USERS + 1,
                                 MAX_MULTI_USERS + 1 } }

\* The analyses a call may compute: of an account without followers,
\* repositories and events, or of one whose repository listing failed;
\* of an account with repositories and stars; of accounts with followers
\* and commits.
AccountOf(k) ==
    CASE k = 0 -> AnalysisRecord(0, 0, 0, 0, 0)
      [] k = 1 -> AnalysisRecord(2, 2, 0, 0, 1)
      [] OTHER -> AnalysisRecord(0, 0, k, k - 1, 0)

\* What one call of analyze_profile may meet: the answer of GitHub to the
\* profile request and the analysis computed from what GitHub served at
\* that call.  Two calls for one user may meet different things.
BattleWorlds ==
    { [answer |-> [kind |-> "response", status |-> 200, body |-> "json"],
       analysis |-> AccountOf(k)] : k \in 0..MaxAccount }
      \cup { [answer |-> [kind |-> "response", status |-> 404, body |-> "json"],
              analysis |-> AccountOf(0)] }

\* profile_analyzer.analyze_profile for a user of the battle.
AnalyzeProfileOf(w) ==
    LET profile == GetProfile(w.answer) IN
    IF profile.ok THEN Returned(w.analysis) ELSE profile

ValueError(msg) ==
    [ok |-> FALSE, exc |-> "ValueError", status |-> 0,
     value |-> [type |-> "message", items |-> <<msg>>]]

\* pydantic's validation of BattleRequest.usernames
BattleRequestValid(usernames) ==
    Len(usernames) >= MIN_USERS /\ Len(usernames) <= MAX_BATTLE_USERS

\* What each battle route does before it calls the service: "" when it
\* goes on, else the exception that left its try block.
RouteCheck(endpoint, usernames, hasToken) ==
    IF endpoint = "multi-battle" /\ Len(usernames) < MIN_USERS
      THEN HTTPException(400)
    ELSE IF endpoint = "multi-battle" /\ Len(usernames) > MAX_MULTI_USERS
      THEN HTTPException(400)
    ELSE IF endpoint \in {"quick-battle", "category-battle"} /\ ~BattleRequestValid(usernames)
      THEN OtherException("ValidationError")
    ELSE IF ~hasToken
      THEN HTTPException(401)
    ELSE Returned(NoValue)

\* The except clauses of the battle routes: start and multi-battle answer
\* a ValueError with 400 and any other exception, an HTTPException raised
\* in the try block included, with 500; quick-battle and category-battle
\* answer every exception with 500.
BattleResponse(endpoint, result) ==
    [sent |-> TRUE,
     status |-> IF result.ok THEN 200
                ELSE IF /\ endpoint \in {"start", "multi-battle"}
                        /\ result.exc \in {"ValueError", "ValidationError"}
                  THEN 400
                ELSE 500,
     result |-> result]

\* The battle types a route may be asked for: quick-battle fixes
\* comprehensive, multi-battle ranks by comprehensive, category-battle
\* takes the category of its path, "none" standing for one it refuses.
BattleTypesOf(endpoint) ==
    CASE endpoint = "start" -> {"comprehensive", "activity"}
      [] endpoint = "category-battle" -> {"technical", "social", "none"}
      [] OTHER -> {"comprehensive"}

\* A battle route is called.  FastAPI validates the BattleRequest body of
\* /start before the handler runs (422), and category_battle checks the
\* category before its try block (400).
BattleRoute ==
    /\ op = NoCall
    /\ \E endpoint \in {"start", "multi-battle", "quick-battle", "category-battle"},
          usernames \in UsernameLists, hasToken \in BOOLEAN :
       \E category \in BattleTypesOf(endpoint) :
         /\ endpoint = "quick-battle" => Len(usernames) = 2
         /\ battle' = [endpoint |-> endpoint, category |-> category,
                       usernames |-> usernames, world |-> << >>,
                       next |-> 1, analyses |-> << >>]
         /\ IF endpoint = "start" /\ ~BattleRequestValid(usernames)
              THEN /\ op' = [name |-> "battle", stage |-> "done"]
                   /\ reply' = [sent |-> TRUE, status |-> 422,
                                result |-> OtherException("RequestValidationError")]
            ELSE IF category = "none"
              THEN /\ op' = [name |-> "battle", stage |-> "done"]
                   /\ reply' = [sent |-> TRUE, status |-> 400, result |-> HTTPException(400)]
            ELSE IF ~RouteCheck(endpoint, usernames, hasToken).ok
              THEN /\ op' = [name |-> "battle", stage |-> "done"]
                   /\ reply' = BattleResponse(endpoint, RouteCheck(endpoint, usernames, hasToken))
            ELSE /\ op' = [name |-> "battle", stage |-> "loop"]
                 /\ UNCHANGED reply
    /\ UNCHANGED <<task, loop, sent, gateVars>>

\* Mutant of Keep: a failed analysis discards the ones collected so far.
KeepOrReset(analyses, username, analysis) ==
    IF analysis.ok
      THEN Append(analyses, [username |-> username, analysis |-> analysis.value])
      ELSE << >>

\* The body of the loop over the usernames: the analysis is kept, or the
\* exception swallowed.
Keep(analyses, username, analysis) ==
    IF analysis.ok
      THEN Append(analyses, [username |-> username, analysis |-> analysis.value])
      ELSE analyses

\* conduct_battle and multi_user_battle: the analysis of the next user.
\* battle.world records what each call met.
BattleAnalysed ==
    /\ op.name = "battle"
    /\ op.stage = "loop"
    /\ battle.next <= Len(battle.usernames)
    /\ \E w \in BattleWorlds :
         battle' = [battle EXCEPT
                      !.next = @ + 1,
                      !.world = Append(@, w),
                      !.analyses = Keep(@, battle.usernames[battle.next],
                                        AnalyzeProfileOf(w))]
    /\ sent' = Issue("user")
    /\ UNCHANGED <<op, task, loop, reply, gateVars>>

\* The participants of the analyses kept, scored under the battle type.
Participants(analyses, battle_type) ==
    [i \in 1..Len(analyses) |->
        [username |-> analyses[i].username,
         profile_analysis |-> analyses[i].analysis,
         battle_score |-> CalculateBattleScore(analyses[i].analysis, battle_type),
         rank |-> 0]]

\* Mutant of InsertByTotal: a participant goes before those of the same
\* total.
InsertByTotalBeforeEqual(p, sorted) ==
    LET before == { i \in 1..Len(sorted) : sorted[i].battle_score.total > p.battle_score.total }
        k == Cardinality(before)
    IN SubSeq(sorted, 1, k) \o <<p>> \o SubSeq(sorted, k + 1, Len(sorted))

\* list.sort(key=total, reverse=True): stable, greatest total first.
InsertByTotal(p, sorted) ==
    LET before == { i \in 1..Len(sorted) : sorted[i].battle_score.total >= p.battle_score.total }
        k == Cardinality(before)
    IN SubSeq(sorted, 1, k) \o <<p>> \o SubSeq(sorted, k + 1, Len(sorted))

RECURSIVE SortByTotal(_)
SortByTotal(ps) ==
    IF ps = << >> THEN << >>
    ELSE InsertByTotal(ps[Len(ps)], SortByTotal(SubSeq(ps, 1, Len(ps) - 1)))

Ranked(ps) == [i \in 1..Len(ps) |-> [ps[i] EXCEPT !.rank = i]]

\* A Python dict: its items in insertion order.  d[key] = value keeps the
\* place of a key the dict already has.
DictSet(d, key, value) ==
    IF \E i \in 1..Len(d) : d[i].key = key
      THEN [i \in 1..Len(d) |-> IF d[i].key = key THEN [key |-> key, value |-> value] ELSE d[i]]
      ELSE Append(d, [key |-> key, value |-> value])

DictGet(d, key) == d[CHOOSE i \in 1..Len(d) : d[i].key = key].value

\* generate_recommendations: one entry per username, the last
\* participant of a name writing it.
RECURSIVE GenerateRecommendations(_)
GenerateRecommendations(participants) ==
    IF participants = << >> THEN << >>
    ELSE LET p == participants[Len(participants)] IN
         DictSet(GenerateRecommendations(SubSeq(participants, 1, Len(participants) - 1)),
                 p.username,
                 <<p.battle_score.activity < 2000, p.battle_score.quality < 2500>>)

\* conduct_battle after the loop.
ConductBattle(analyses, battle_type) ==
    IF Len(analyses) < MIN_USERS
      THEN ValueError("At least 2 valid profiles required for battle")
      ELSE LET participants == Ranked(SortByTotal(Participants(analyses, battle_type))) IN
           Returned([type |-> "battle", items |-> participants,
                     winner |-> participants[1].username,
                     recommendations |-> GenerateRecommendations(participants)])

\* category_scores[category] after the loop over the analyses.
RECURSIVE CategoryScores(_, _)
CategoryScores(analyses, category) ==
    IF analyses = << >> THEN << >>
    ELSE LET last == analyses[Len(analyses)] IN
         DictSet(CategoryScores(SubSeq(analyses, 1, Len(analyses) - 1), category),
                 last.username,
                 CalculateBattleScore(last.analysis, category).total)

\* max(scores.items(), key=lambda x: x[1]): of the items of the greatest
\* value the first one.
RECURSIVE MaxItem(_)
MaxItem(items) ==
    IF Len(items) = 1 THEN items[1]
    ELSE LET rest == MaxItem(Tail(items)) IN
         IF items[1].value >= rest.value THEN items[1] ELSE rest

\* The rows of the leaderboard, the category columns read from
\* category_scores by username.
Leaderboard(participants, category_scores) ==
    [i \in 1..Len(participants) |->
        [rank |-> participants[i].rank,
         username |-> participants[i].username,
         total_score |-> participants[i].battle_score.total,
         technical_score |-> DictGet(category_scores["technical"], participants[i].username),
         social_score |-> DictGet(category_scores["social"], participants[i].username),
         activity_score |-> DictGet(category_scores["activity"], participants[i].username)]]

\* multi_user_battle after the loop.
MultiUserBattle(analyses) ==
    IF Len(analyses) < MIN_USERS
      THEN ValueError("At least 2 valid profiles required for battle")
      ELSE LET participants == Ranked(SortByTotal(Participants(analyses, "comprehensive")))
               category_scores == [c \in BattleTypes |-> CategoryScores(analyses, c)]
           IN
           Returned([type |-> "multi", items |-> participants,
                     leaderboard |-> Leaderboard(participants, category_scores),
                     category_scores |-> category_scores,
                     category_winners |->
                         [c \in BattleTypes |-> MaxItem(category_scores[c]).key]])

BattleFinished ==
    /\ op.name = "battle"
    /\ op.stage = "loop"
    /\ battle.next > Len(battle.usernames)
    /\ reply' = BattleResponse(battle.endpoint,
                               IF battle.endpoint = "multi-battle"
                                 THEN MultiUserBattle(battle.analyses)
                                 ELSE ConductBattle(battle.analyses, battle.category))
    /\ op' = [op EXCEPT !.stage = "done"]
    /\ UNCHANGED <<task, loop, sent, battle, gateVars>>

NextBattle == BattleRoute \/ BattleAnalysed \/ BattleFinished \/ CallReturns

SpecBattle == InitAnalysis /\ [][NextBattle]_vars

\* ------------------------------------------------- pure calculations
\* IssueInfo records: times are counted in units of 1/UnitsPerDay of a
\* day from the creation of the oldest issue.
UnitsPerDay == 2

IssueInfos ==
    { [state |-> "open", created_at |-> 0, closed_at |-> {}],
      [state |-> "closed", created_at |-> 0, closed_at |-> {}] }
      \cup { [state |-> "closed", created_at |-> c, closed_at |-> {t}] :
               c \in 0..1, t \in 1..MaxAge }

IssueLists == UNION { [1..n -> IssueInfos] : n \in 0..MaxIssues }

\* timedelta.days of the difference of two times
Days(from, to) == (to - from) \div UnitsPerDay

\* round(num / den, 2), in hundredths.  No quotient of the lists above
\* is half way between two hundredths.
RoundedQuotient(num, den) == (2 * 100 * num + den) \div (2 * den)

RECURSIVE Sum(_)
Sum(seq) == IF seq = << >> THEN 0 ELSE Head(seq) + Sum(Tail(seq))

\* The truth value Python gives an Optional number.
Truthy(opt) == \E x \in opt : x # 0

\* calculate_activity_metrics, the part on the issues: the rate in
\* hundredths of a percent, the average in hundredths of a day; None is
\* the empty set.
CalculateActivityMetrics(issues) ==
    LET IsClosed(i) == i.state = "closed"
        HasClosedAt(i) == i.closed_at # {}
        closed_issues == SelectSeq(issues, IsClosed)
        timed == SelectSeq(closed_issues, HasClosedAt)
        resolution_times ==
            [k \in 1..Len(timed) |->
                Days(timed[k].created_at, CHOOSE t \in timed[k].closed_at : TRUE)]
        \* sum / len, kept as the pair of its terms
        avg_resolution_time ==
            IF resolution_times # << >>
              THEN {[sum |-> Sum(resolution_times), len |-> Len(resolution_times)]}
              ELSE {}
    IN [issue_resolution_rate |->
            RoundedQuotient(Len(closed_issues) * 100,
                            IF Len(issues) > 1 THEN Len(issues) ELSE 1),
        average_issue_resolution_time |->
            IF Truthy({a.sum : a \in avg_resolution_time})
              THEN {RoundedQuotient(a.sum, a.len) : a \in avg_resolution_time}
              ELSE {}]

\* The calculations start with their arguments bound.
InitCalc ==
    /\ now = StartTime
    /\ ticks = 0
    /\ tz = 0
    /\ excludeAll = FALSE
    /\ pc = "idle"
    /\ req = NoRequest
    /\ gate = "none"
    /\ tokenResult = NoResult
    /\ ctx = NoContext
    /\ handlerSaw = NoContext
    /\ handlerCalls = 0
    /\ upstreamCalls = 0
    /\ resp = NoResponse
    /\ held = {}
    /\ authWork = {}
    /\ op \in { [name |-> "calculate_battle_score", stage |-> "called",
                 analysis |-> a, battle_type |-> t] :
                  a \in AnalysisRecords, t \in BattleTypes }
               \cup { [name |-> "calculate_activity_metrics", stage |-> "called",
                       issues |-> is] : is \in IssueLists }
    /\ task = << >>
    /\ loop = NoLoop
    /\ sent = << >>
    /\ battle = NoBattle
    /\ reply = NoReply

BattleScoreCalculated ==
    /\ op.name = "calculate_battle_score"
    /\ op.stage = "called"
    /\ reply' = [sent |-> FALSE, status |-> 0,
                 result |-> Returned(CalculateBattleScore(op.analysis, op.battle_type))]
    /\ op' = [op EXCEPT !.stage = "done"]
    /\ UNCHANGED <<task, loop, sent, battle, gateVars>>

ActivityMetricsCalculated ==
    /\ op.name = "calculate_activity_metrics"
    /\ op.stage = "called"
    /\ reply' = [sent |-> FALSE, status |-> 0,
                 result |-> Returned(CalculateActivityMetrics(op.issues))]
    /\ op' = [op EXCEPT !.stage = "done"]
    /\ UNCHANGED <<task, loop, sent, battle, gateVars>>

NextCalc == BattleScoreCalculated \/ ActivityMetricsCalculated

SpecCalc == InitCalc /\ [][NextCalc]_vars

\* ------------------------------------------------------------ claims
\* The request in dispatch went through the gate and its header was
\* accepted: a token reached validate_and_refresh_token.
TokenRead ==
    /\ pc # "idle"
    /\ ~Skips(excludeAll, req.path)
    /\ HeaderError(req.header) = ""

Presented == req.header.token

\* The credential in dispatch is validly signed.
SignedPresented == TokenRead /\ Presented.form = "signed"

\* The gate has decided the request.
Decided == pc \in {"handler", "done"}

\* The who-am-I endpoint accepts the upstream token of the credential.
UpstreamValidates ==
    /\ TruthyStr(Presented.payload.access_token)
    /\ req.world = [kind |-> "response", status |-> UPSTREAM_OK]

\* C1: a validly signed credential whose expires_at is in the past never
\* ends in ValidPassthrough; it ends in RefreshedPassthrough exactly when
\* its upstream token still validates, and in Rejected otherwise.
C1_ExpiredRefreshedIffUpstreamValid ==
    (SignedPresented /\ Decided /\ \E e \in Presented.payload.exp : e < now)
      => /\ gate # "ValidPassthrough"
         /\ (gate = "RefreshedPassthrough") <=> UpstreamValidates
         /\ ~UpstreamValidates => gate = "Rejected"

\* C1 for expiry claims other than the epoch itself (holds).
C1_ExpiredNonZero ==
    (SignedPresented /\ Decided /\ \E e \in Presented.payload.exp : e < now /\ e # 0)
      => /\ gate # "ValidPassthrough"
         /\ (gate = "RefreshedPassthrough") <=> UpstreamValidates
         /\ ~UpstreamValidates => gate = "Rejected"

\* C2: a validly signed credential with now < expires_at - threshold
\* passes strict verification, ends in ValidPassthrough, and no refresh is
\* attempted: no who-am-I call, no replacement credential.
C2_FarFromExpiryValidNoRefresh ==
    (SignedPresented /\ \E e \in Presented.payload.exp : now < e - REFRESH_THRESHOLD_MINUTES)
      => /\ gate = "ValidPassthrough"
         /\ tokenResult.status = "valid"
         /\ upstreamCalls = 0
         /\ tokenResult.new_token = GarbageToken

\* C2 on a server whose local time is UTC (holds).
C2_FarFromExpiryUtcServer ==
    (tz = 0 /\ SignedPresented
       /\ \E e \in Presented.payload.exp : now < e - REFRESH_THRESHOLD_MINUTES)
      => /\ gate = "ValidPassthrough"
         /\ tokenResult.status = "valid"
         /\ upstreamCalls = 0
         /\ tokenResult.new_token = GarbageToken

\* The gate turns the request away: a header it does not accept, or a
\* credential outcome tagged invalid.
GateRejects ==
    /\ pc # "idle"
    /\ ~Skips(excludeAll, req.path)
    /\ (HeaderError(req.header) # "" \/ tokenResult.status = "invalid")

RejectionMessage ==
    IF HeaderError(req.header) # "" THEN HeaderError(req.header) ELSE tokenResult.message

\* C3: whenever the gate rejects a non-excluded request, the response is
\* HTTP 401 with the body {error: message}, and the downstream handler is
\* never invoked for the request.
C3_RejectedIs401NotForwarded ==
    /\ GateRejects =>
         /\ pc = "done"
         /\ gate = "Rejected"
         /\ resp.sent
         /\ resp.status = 401
         /\ resp.error = {RejectionMessage}
         /\ RejectionMessage # ""
         /\ handlerCalls = 0
    /\ gate = "Rejected" => GateRejects

C3_Witness ==
    /\ GateRejects
    /\ tokenResult.message = "Invalid token"
    /\ resp.status = 401
    /\ handlerCalls = 0

\* C4: a credential that is structurally invalid or fails signature
\* verification is always Rejected and never triggers the refresh
\* protocol, whatever its expiry field says: no who-am-I call is issued
\* and no replacement credential is minted.
C4_BadSignatureNeverRefreshed ==
    (TokenRead /\ Presented.form \in {"malformed", "badsig"})
      => /\ pc = "done"
         /\ gate = "Rejected"
         /\ tokenResult = Invalid("Invalid token")
         /\ upstreamCalls = 0
         /\ resp.new_token = {}

C4_Witness ==
    /\ TokenRead
    /\ Presented.form = "badsig"
    /\ \E e \in Presented.payload.exp : e # 0 /\ e < now
    /\ gate = "Rejected"

\* C5: the response carries X-New-Token (the replacement credential) and
\* X-Token-Refreshed: true exactly when the gate performed a refresh for
\* the request (never on ValidPassthrough, Excluded or Rejected); they are
\* set after the handler has produced its response, whatever its status.
C5_RefreshHeadersIffRefreshed ==
    /\ pc = "done" =>
         /\ (gate = "RefreshedPassthrough") <=> (tokenResult.status = "refreshed")
         /\ resp.new_token =
              IF gate = "RefreshedPassthrough" THEN {tokenResult.new_token} ELSE {}
         /\ resp.refreshed = IF gate = "RefreshedPassthrough" THEN {"true"} ELSE {}
    /\ pc # "done" => resp = NoResponse

C5_Witness ==
    /\ pc = "done"
    /\ gate = "RefreshedPassthrough"
    /\ resp.status = 500
    /\ resp.refreshed = {"true"}
    /\ resp.new_token = {tokenResult.new_token}

\* The who-am-I check of an expired, validly signed credential was issued
\* and answered with a status other than 200.
ExpiredUpstreamRefused ==
    /\ SignedPresented
    /\ \E e \in Presented.payload.exp : e < now
    /\ pc = "done"
    /\ upstreamCalls = 1
    /\ req.world.kind = "response"
    /\ req.world.status # UPSTREAM_OK

\* C6, as stated: for a validly signed credential whose exp is in the past
\* and whose upstream-token check returns a non-success status, the gate
\* responds 401 with the body {"error": "Token expired and cannot be
\* refreshed"}.
C6_AsStated ==
    ExpiredUpstreamRefused
      => resp = Unauthorized("Token expired and cannot be refreshed")

\* C6, amended: in that case the gate responds 401 with the body
\* {"error": "GitHub token is no longer valid"}.
C6_ExpiredUpstreamRefusedMessage ==
    ExpiredUpstreamRefused
      => /\ resp = Unauthorized("GitHub token is no longer valid")
         /\ handlerCalls = 0

C6_Witness ==
    /\ ExpiredUpstreamRefused
    /\ req.world.status = 401
    /\ resp.status = 401

\* validate_and_refresh_token handed the credential to refresh_token and
\* refresh_token has returned.
RefreshRan ==
    /\ TokenRead
    /\ Decided
    /\ ValidationPath(Presented, now, tz).kind = "refresh"

\* C7: the refresh protocol never raises: for every payload and every
\* behaviour of the upstream check, refresh_token returns a tagged result,
\* 'refreshed' with payload and new_token, or 'invalid' with a message.
C7_RefreshAlwaysTagged ==
    RefreshRan =>
      \/ /\ tokenResult.status = "refreshed"
         /\ tokenResult.keys = {"status", "payload", "new_token"}
         /\ tokenResult.new_token.form = "signed"
         /\ tokenResult.new_token.payload = tokenResult.payload
      \/ /\ tokenResult.status = "invalid"
         /\ tokenResult.keys = {"status", "message"}
         /\ tokenResult.message # ""

C7_Witness ==
    /\ RefreshRan
    /\ req.world.kind \in {"timeout", "error"}
    /\ upstreamCalls = 1
    /\ tokenResult.status = "invalid"

\* C8: every credential minted by a successful refresh, of an original or
\* of a previously refreshed credential, is of the refreshed kind
\* (refreshed_at is the mint time) and has an expires_at strictly greater
\* than now at mint time and than its issued_at.
C8_MintedShape ==
    tokenResult.status = "refreshed" =>
      LET minted == tokenResult.new_token.payload IN
      /\ minted.refreshed_at = {now}
      /\ minted.type = {"github_token"}
      /\ minted.iat # {}
      /\ minted.exp # {}
      /\ \A e \in minted.exp : e > now /\ \A i \in minted.iat : e > i

C8_Witness ==
    /\ tokenResult.status = "refreshed"
    /\ Presented.payload.refreshed_at # {}
    /\ Presented \in held

\* C9: every credential minted by a successful refresh carries exactly the
\* upstream token and the granted scopes of the credential it replaces.
C9_MintedKeepsTokenAndScopes ==
    tokenResult.status = "refreshed" =>
      LET minted == tokenResult.new_token.payload IN
      /\ minted.access_token = Presented.payload.access_token
      /\ TruthyStr(minted.access_token)
      /\ minted.scopes # {}
      /\ GetScopes(minted) = GetScopes(Presented.payload)

C9_Witness ==
    /\ tokenResult.status = "refreshed"
    /\ GetScopes(Presented.payload) = <<"public_repo", "read:user">>
    /\ GetScopes(tokenResult.new_token.payload) = <<"public_repo", "read:user">>

\* C10: in every passthrough state the credential payload and its
\* upstream token are attached to the request context before the next
\* handler is invoked, so the handler observes them.
C10_ContextAttachedBeforeHandler ==
    (Decided /\ gate \in {"ValidPassthrough", "RefreshedPassthrough"})
      => /\ handlerCalls = 1
         /\ handlerSaw.set
         /\ handlerSaw.user = tokenResult.payload
         /\ handlerSaw.github_token = tokenResult.payload.access_token
         /\ ctx = handlerSaw

C10_Witness ==
    /\ pc = "handler"
    /\ gate = "RefreshedPassthrough"
    /\ handlerSaw.github_token = {"gho_A"}
    /\ handlerSaw.user.refreshed_at = {now}

\* C11: a request whose path starts with a configured exclusion prefix, or
\* any request when exclude_all is set, is forwarded to the next handler
\* untouched with no auth work: the Authorization header is not read, no
\* credential is decoded, no refresh is attempted (no who-am-I call),
\* nothing is attached to request.state, and the response is the
\* handler's own, without refresh headers.
ExclusionApplies ==
    /\ pc # "idle"
    /\ \/ excludeAll
       \/ \E i \in 1..Len(ExcludePaths) : StartsWith(req.path, ExcludePaths[i])

C11_ExcludedForwardedUntouched ==
    ExclusionApplies =>
        /\ Decided
        /\ handlerCalls = 1
        /\ authWork = {}
        /\ tokenResult = NoResult
        /\ upstreamCalls = 0
        /\ ctx = NoContext
        /\ handlerSaw = NoContext
        /\ pc = "done" =>
              /\ resp.status \in HandlerStatuses
              /\ resp.error = {}
              /\ resp.new_token = {}
              /\ resp.refreshed = {}

\* An excluded route was asked for with a credential that the gate would
\* have refreshed, and the handler has answered.
C11_Witness ==
    /\ pc = "done"
    /\ ~excludeAll
    /\ ExclusionApplies
    /\ req.header.kind = "text"
    /\ req.header.token.form = "signed"
    /\ ValidationPath(req.header.token, now, tz).kind = "refresh"
    /\ resp.sent

\* C12 (as stated): with the configuration main.py installs, a request
\* without an Authorization header reaches its handler if and only if its
\* route is one of health check, OAuth entry, token refresh, token status
\* and docs.
AllowList == {"health", "oauth_entry", "token_refresh", "token_status", "docs"}

RouteOf(path) == (CHOOSE r \in AppRoutes : r.path = path).route

C12_HeaderlessReachesIffAllowListed ==
    (~excludeAll /\ Decided /\ req.header = NoHeader) =>
        ((handlerCalls = 1) <=> (RouteOf(req.path) \in AllowList))

\* What holds instead: the token status route is gated like the
\* protected routes, every other route is as the claim says.
C12_HeaderlessReachesIffExcluded ==
    (~excludeAll /\ Decided /\ req.header = NoHeader) =>
        ((handlerCalls = 1) <=> (RouteOf(req.path) \in AllowList \ {"token_status"}))

\* analyze_profile has been through its gather and the route has answered.
ProfileAnalysed ==
    /\ op.name = "analyze_profile"
    /\ op.stage = "done"
    /\ task # << >>

\* C13: in a profile analysis a failed profile fetch fails the analysis
\* with that very error; a failed repository listing or a failed events
\* fetch, alone or together, never fails it: the failed part is the empty
\* list and the metrics derived from it are those of the empty list.
C13_ProfileFatalOthersDegrade ==
    ProfileAnalysed =>
        IF task["profile"].failed
          THEN /\ ~reply.result.ok
               /\ reply.result = GetProfile(task["profile"].answer)
          ELSE /\ reply.result.ok
               /\ reply.status = 200
               /\ reply.result.value.profile = Holds("user")
               /\ IF task["repositories"].failed
                    THEN /\ reply.result.value.repositories = EmptyList
                         /\ reply.result.value.stats.total_repos = 0
                    ELSE reply.result.value.stats.total_repos = op.total
               /\ IF task["events"].failed
                    THEN /\ reply.result.value.events = EmptyList
                         /\ reply.result.value.activity_metrics.total_commits = 0
                    ELSE /\ reply.result.value.events = Holds("events")
                         /\ reply.result.value.activity_metrics.total_commits = 1

\* The profile was fetched, the listing failed on a later page and the
\* events failed: the analysis was returned.
C13_Witness ==
    /\ ProfileAnalysed
    /\ ~task["profile"].failed
    /\ task["repositories"].failed
    /\ Len(loop.requested) > 1
    /\ task["events"].failed
    /\ reply.status = 200

\* The sub-fetches an analysis hands to asyncio.gather, and the endpoint
\* each of them asks first.
TasksOf(name) == IF name = "analyze_profile" THEN ProfileTasks ELSE RepositoryTasks

FirstEndpoint(n) ==
    CASE n = "profile" -> "user"
      [] n = "repositories" -> "repos"
      [] n \in {"repo_info", "tree"} -> "repo"
      [] OTHER -> n

\* C14: all sub-fetches of analyze_profile and analyze_repository are
\* started together, and the results are merged only when every one of
\* them has finished, with a value or an error; whatever the order in
\* which they finish and whichever of them fail, each has issued its
\* request and run to its end.
C14_JoinWaitsForAll ==
    (op.name \in {"analyze_profile", "analyze_repository"} /\ task # << >>) =>
        /\ DOMAIN task = TasksOf(op.name)
        /\ op.stage # "gather" =>
              /\ \A n \in DOMAIN task :
                    /\ task[n].state = "done"
                    /\ task[n].result # NotRun
                    /\ Sent(FirstEndpoint(n)) >= 1
              /\ op.name = "analyze_repository" => Sent("repo") = 2

\* The mandatory fetch failed, every other sub-fetch succeeded, and the
\* analysis has ended.
C14_Witness ==
    /\ op.name = "analyze_repository"
    /\ op.stage = "done"
    /\ task # << >>
    /\ task["repo_info"].failed
    /\ \A n \in OptionalTasks : ~task[n].failed /\ task[n].result.ok
    /\ task["tree"].result = Returned(Holds("git_tree"))

\* The repositories 1..total, in order, as runs.
RECURSIVE IsListing(_, _, _)
IsListing(items, first, total) ==
    IF items = << >> THEN first = total + 1
    ELSE /\ Head(items).from = first
         /\ Head(items).from <= Head(items).to
         /\ IsListing(Tail(items), Head(items).to + 1, total)

\* C15: the pagination of the repository listing ends for every finite
\* listing: the pages are requested in increasing order from 1, never more
\* than total \div 100 + 1 of them; when no request fails the loop stops
\* at the first page of fewer than 100 entries (an empty page, when the
\* total is a multiple of 100 or zero), and returns the pages in order.
C15_PaginationStopsAtShortPage ==
    (op.name = "analyze_profile" /\ task # << >>) =>
        /\ loop.requested = [i \in 1..Len(loop.requested) |-> i]
        /\ Len(loop.requested) <= op.total \div PER_PAGE + 1
        /\ task["repositories"].state = "running" =>
              /\ loop.page = Len(loop.requested) + 1
              /\ loop.page <= op.total \div PER_PAGE + 1
              /\ RunsLen(loop.all_repos) = PER_PAGE * Len(loop.requested)
        /\ (task["repositories"].state = "done" /\ ~task["repositories"].failed) =>
              /\ Len(loop.requested) = op.total \div PER_PAGE + 1
              /\ task["repositories"].result.ok
              /\ IsListing(task["repositories"].result.value.items, 1, op.total)
              /\ RunsLen(task["repositories"].result.value.items) = op.total

\* A listing of full pages only: the loop ended on the empty page that
\* follows them.
C15_Witness ==
    /\ op.name = "analyze_profile"
    /\ task # << >>
    /\ task["repositories"].state = "done"
    /\ ~task["repositories"].failed
    /\ op.total = 2 * PER_PAGE
    /\ loop.requested = <<1, 2, 3>>
    /\ RunsLen(task["repositories"].result.value.items) = 2 * PER_PAGE

\* analyze_repository has been through its gather and the route has
\* answered.
RepositoryAnalysed ==
    /\ op.name = "analyze_repository"
    /\ op.stage = "done"
    /\ task # << >>

\* The empty default the analysis record holds for a part that failed.
EmptyDefault(n) ==
    CASE n = "languages" -> [type |-> "dict", items |-> << >>]
      [] n = "tree" -> [type |-> "tree", items |-> << >>]
      [] OTHER -> [type |-> "list", items |-> << >>]

\* The part of the analysis record that a sub-fetch fills.
PartOf(record, n) ==
    CASE n = "languages" -> record.languages
      [] n = "contributors" -> record.contributors
      [] n = "commits" -> [type |-> "list", items |-> record.recent_commits]
      [] n = "tree" -> record.tree

\* C16: in a repository analysis a failed repo-info fetch fails the whole
\* analysis with RepositoryNotFound (HTTPException 404); when repo-info
\* was fetched, no failure among languages, contributors, commits, issues
\* and file tree fails it: an analysis record is returned in which each
\* failed part is its empty default, {} for the languages, [] for the
\* lists, {tree: []} for a file tree that raised.  (The README, fetched
\* after the join, is no part of the claim: the record is returned
\* whenever get_file_content returns.)
C16_RepoInfoFatalOthersDegrade ==
    RepositoryAnalysed =>
        IF task["repo_info"].failed
          THEN /\ reply.result = HTTPException(404)
               /\ reply.status = 404
               /\ op.readme = "none"
          ELSE op.readme = "returned" =>
                 /\ reply.status = 200
                 /\ reply.result.ok
                 /\ reply.result.value.repository = Holds("repo")
                 /\ \A n \in {"languages", "contributors", "commits"} :
                       task[n].failed => PartOf(reply.result.value, n) = EmptyDefault(n)
                 /\ task["issues"].failed => reply.result.value.issues_summary.total = 0
                 /\ ~task["tree"].result.ok =>
                       /\ reply.result.value.tree = EmptyDefault("tree")
                       /\ ~reply.result.value.code_quality.has_readme
                 /\ reply.result.value.tree.type = "tree"

\* Repo-info was fetched and each of the five other sub-fetches failed,
\* the file tree with an error that get_repository_tree propagates.
C16_Witness ==
    /\ RepositoryAnalysed
    /\ ~task["repo_info"].failed
    /\ \A n \in OptionalTasks : task[n].failed
    /\ ~task["tree"].result.ok
    /\ reply.status = 200

\* GitHub answered the mandatory sub-fetch of the analysis with a remote
\* error: a status that is no success, a timeout or a transport failure.
Mandatory == IF op.name = "analyze_profile" THEN "profile" ELSE "repo_info"

RemoteError(ans) ==
    \/ ans.kind \in {"timeout", "error"}
    \/ ans.kind = "response" /\ ans.status \notin 200..299

MandatoryRemoteError ==
    /\ op.name \in {"analyze_profile", "analyze_repository"}
    /\ op.stage = "done"
    /\ task # << >>
    /\ RemoteError(task[Mandatory].answer)

\* The HTTP status that corresponds to the kind of a remote error: 408
\* for a timeout, 500 for a transport failure, else the upstream status
\* (404 for NotFound, 403 for Forbidden).
StatusOfKind(ans) ==
    IF ans.kind = "timeout" THEN 408
    ELSE IF ans.kind = "error" THEN 500
    ELSE ans.status

\* C17 (as stated): when the mandatory sub-fetch of an analysis fails with
\* a remote error, the analysis endpoint answers with the status of that
\* error's kind, for the profile analysis and the repository analysis
\* alike.
C17_AsStated ==
    MandatoryRemoteError => reply.status = StatusOfKind(task[Mandatory].answer)

\* C17 (amended): the profile analysis endpoint answers with the status
\* of the error's kind (404, 403, 408, 500 or the upstream status); the
\* repository analysis endpoint answers 404 whatever the kind.
C17_StatusByKindOrNotFound ==
    MandatoryRemoteError =>
        reply.status = IF op.name = "analyze_profile"
                         THEN StatusOfKind(task["profile"].answer)
                         ELSE 404

\* Both cases: a profile fetch that timed out, answered 408.
C17_Witness ==
    /\ MandatoryRemoteError
    /\ op.name = "analyze_profile"
    /\ task["profile"].answer.kind = "timeout"
    /\ reply.status = 408

\* get_repository_tree has returned or raised.
TreeResolved ==
    /\ op.name = "analyze_repository"
    /\ task # << >>
    /\ task["tree"].state = "done"

\* C18: get_repository_tree walks the contents API if and only if its
\* primary path (default-branch lookup, then the recursive git-tree call)
\* failed with a 404; any other remote error of the primary path is
\* propagated and no contents request is issued; after a 404 the result
\* is always a tree, {tree: []} when the walk fails, never an error.
C18_ContentsWalkIffNotFound ==
    TreeResolved =>
        LET primary == task["tree"].answer
            notFound == primary.kind = "response" /\ primary.status = 404
        IN /\ (Sent("contents") >= 1) <=> notFound
           /\ (RemoteError(primary) /\ ~notFound) =>
                 /\ task["tree"].result = HTTPException(StatusOfKind(primary))
                 /\ Sent("contents") = 0
           /\ notFound =>
                 /\ task["tree"].result.ok
                 /\ task["tree"].result.value.type = "tree"
                 /\ task["tree"].failed =>
                       task["tree"].result.value = [type |-> "tree", items |-> << >>]

\* The git-tree call was answered 404 and the contents walk failed.
C18_Witness ==
    /\ TreeResolved
    /\ Sent("git_tree") = 1
    /\ task["tree"].answer.status = 404
    /\ task["tree"].failed
    /\ task["tree"].result = Returned([type |-> "tree", items |-> << >>])

\* The service of a battle route has run its loop to the end and the
\* route has answered.
BattleFought ==
    /\ op.name = "battle"
    /\ op.stage = "done"
    /\ battle.next > 1

\* The subjects of the battle whose profile GitHub serves, in input order.
RECURSIVE Survivors(_, _)
Survivors(usernames, world) ==
    IF usernames = << >> THEN << >>
    ELSE (IF Failure(Head(world).answer) THEN << >> ELSE <<Head(usernames)>>)
           \o Survivors(Tail(usernames), Tail(world))

\* C19: in conduct_battle and multi_user_battle a subject whose analysis
\* fails is dropped and the others are still analysed; the operation
\* fails, with the ValueError "At least 2 valid profiles required for
\* battle", if and only if fewer than 2 subjects survive; otherwise the
\* participants are exactly the surviving subjects, each as often as it
\* was named.
C19_ParticipantsAreSurvivors ==
    BattleFought =>
        LET survivors == Survivors(battle.usernames, battle.world)
            result == reply.result
        IN /\ battle.next = Len(battle.usernames) + 1
           /\ Sent("user") = Len(battle.usernames)
           /\ IF Len(survivors) < 2
                THEN /\ ~result.ok
                     /\ result.exc = "ValueError"
                     /\ result.value.items = <<"At least 2 valid profiles required for battle">>
                ELSE /\ result.ok
                     /\ Len(result.value.items) = Len(survivors)
                     /\ \A i \in 1..Len(Users) :
                           CountOf([k \in 1..Len(result.value.items) |->
                                       result.value.items[k].username], Users[i])
                             = CountOf(survivors, Users[i])

\* A subject in the middle of the list failed and the two around it
\* fought the battle.
C19_Witness ==
    /\ BattleFought
    /\ Len(battle.usernames) = 3
    /\ Failure(battle.world[2].answer)
    /\ reply.result.ok
    /\ Len(reply.result.value.items) = 2

\* The bounds of the route on the number of usernames.
CountOutOfBounds ==
    \/ Len(battle.usernames) < 2
    \/ Len(battle.usernames) > (IF battle.endpoint = "multi-battle" THEN 10 ELSE 5)

\* C20 (as stated): on every battle endpoint a number of usernames
\* outside the bounds of the endpoint, and fewer than 2 surviving
\* profiles, are answered with status 400.
C20_ValidationErrorIs400 ==
    (op.name = "battle" /\ op.stage = "done" /\ reply.result # HTTPException(401)) =>
        /\ CountOutOfBounds => reply.status = 400
        /\ (BattleFought /\ Len(Survivors(battle.usernames, battle.world)) < 2) =>
              reply.status = 400

\* What the routes answer instead: /start answers a count out of bounds
\* with 422 and too few survivors with 400; /multi-battle a count out of
\* bounds with 500 and too few survivors with 400; /quick-battle and
\* /category-battle either of them with 500.
C20_StatusesObserved ==
    (/\ op.name = "battle"
     /\ op.stage = "done"
     /\ reply.result # HTTPException(401)
     /\ battle.category # "none") =>
        /\ CountOutOfBounds =>
              reply.status = (IF battle.endpoint = "start" THEN 422 ELSE 500)
        /\ (BattleFought /\ Len(Survivors(battle.usernames, battle.world)) < 2) =>
              reply.status = (IF battle.endpoint \in {"start", "multi-battle"} THEN 400 ELSE 500)

\* A battle route has answered with the result of its service.
BattleWon ==
    /\ BattleFought
    /\ reply.result.ok

\* The participants the service made of the analyses it kept, in the
\* order of the usernames of the request.
Entrants == Participants(battle.analyses, battle.category)

\* The items of a list of participants whose total is t, without their
\* ranks.
OfTotal(ps, t) ==
    LET Is(p) == p.battle_score.total = t
        same == SelectSeq(ps, Is)
    IN [i \in 1..Len(same) |-> [same[i] EXCEPT !.rank = 0]]

\* C21: in the result of conduct_battle and of multi_user_battle the
\* participants are the entrants ordered by total descending, entrants of
\* equal total in their input order; the participant at position i
\* (0-based) has rank i + 1; the winner reported is the participant of
\* rank 1 and no participant has a greater total; the leaderboard lists
\* the participants in that order.
C21_RankedByTotalStable ==
    BattleWon =>
        LET ps == reply.result.value.items IN
        /\ Len(ps) = Len(Entrants)
        /\ \A i \in 1..Len(ps) : \A j \in 1..Len(ps) :
              i < j => ps[i].battle_score.total >= ps[j].battle_score.total
        /\ \A k \in 1..Len(ps) :
              OfTotal(ps, ps[k].battle_score.total)
                = OfTotal(Entrants, ps[k].battle_score.total)
        /\ \A i \in 1..Len(ps) : ps[i].rank = i
        /\ \A i \in 1..Len(ps) : ps[1].battle_score.total >= Entrants[i].battle_score.total
        /\ battle.endpoint # "multi-battle" => reply.result.value.winner = ps[1].username
        /\ battle.endpoint = "multi-battle" =>
              LET rows == reply.result.value.leaderboard IN
              /\ Len(rows) = Len(ps)
              /\ \A i \in 1..Len(ps) :
                    /\ rows[i].rank = i
                    /\ rows[i].username = ps[i].username
                    /\ rows[i].total_score = ps[i].battle_score.total

\* Three users fought: the first two tie and the third, with a greater
\* total, wins; the two that tie keep their order.
C21_Witness ==
    /\ BattleWon
    /\ Len(Entrants) = 3
    /\ Entrants[1].battle_score.total = Entrants[2].battle_score.total
    /\ Entrants[3].battle_score.total > Entrants[1].battle_score.total
    /\ Entrants[1].username # Entrants[2].username
    /\ reply.result.value.items[1].username = Entrants[3].username
    /\ reply.result.value.items[2].username = Entrants[1].username
    /\ reply.result.value.items[3].username = Entrants[2].username

\* calculate_battle_score has returned.
Scored == op.name = "calculate_battle_score" /\ op.stage = "done"

\* The caps of the four sub-terms of each profile, in points.
Caps(battle_type) ==
    CASE battle_type = "technical" ->
           [activity |-> 20, quality |-> 40, impact |-> 10, consistency |-> 30]
      [] battle_type = "social" ->
           [activity |-> 20, quality |-> 20, impact |-> 50, consistency |-> 10]
      [] battle_type = "activity" ->
           [activity |-> 40, quality |-> 20, impact |-> 10, consistency |-> 30]
      [] battle_type = "comprehensive" ->
           [activity |-> 25, quality |-> 30, impact |-> 25, consistency |-> 20]

\* C22: for every analysis with non-negative inputs and each of the four
\* profiles the total of the score is the sum of its four sub-terms
\* activity, quality, impact and consistency, each sub-term lies between
\* 0 and the cap of the profile for it, the caps of the profile sum to
\* 100, and the total lies between 0 and 100.
C22_TotalIsSumOfCappedTerms ==
    Scored =>
        LET score == reply.result.value
            caps == Caps(op.battle_type)
        IN /\ score.total = score.activity + score.quality + score.impact + score.consistency
           /\ \A f \in {"activity", "quality", "impact", "consistency"} :
                 score[f] >= 0 /\ score[f] <= caps[f] * 100
           /\ caps.activity + caps.quality + caps.impact + caps.consistency = 100
           /\ score.total >= 0
           /\ score.total <= 100 * 100

\* A technical score whose quality stands at its cap for more stars than
\* the cap needs, and whose activity is a fraction of a point.
C22_Witness ==
    /\ Scored
    /\ op.battle_type = "technical"
    /\ op.analysis.total_stars > 200
    /\ reply.result.value.quality = 40 * 100
    /\ op.analysis.total_repos = 1
    /\ reply.result.value.activity = 67

\* calculate_activity_metrics has returned.
Measured == op.name = "calculate_activity_metrics" /\ op.stage = "done"

\* The closed issues of a list that have a close timestamp.
ClosedTimed(issues) ==
    LET Is(i) == i.state = "closed" /\ i.closed_at # {} IN SelectSeq(issues, Is)

\* C26 (as stated): average_issue_resolution_time is null if and only if
\* no closed issue has a close timestamp; with no issue at all
\* issue_resolution_rate is 0; when at least one closed issue has a close
\* timestamp the average is the mean of closed_at - created_at in days
\* over those issues, also when that mean is 0.
C26_AverageNullIffNoneTimed ==
    Measured =>
        LET timed == ClosedTimed(op.issues)
            metrics == reply.result.value
            days == [k \in 1..Len(timed) |->
                        Days(timed[k].created_at, CHOOSE t \in timed[k].closed_at : TRUE)]
        IN /\ metrics.average_issue_resolution_time = {} <=> timed = << >>
           /\ op.issues = << >> => metrics.issue_resolution_rate = 0
           /\ timed # << >> =>
                 metrics.average_issue_resolution_time
                   = {RoundedQuotient(Sum(days), Len(days))}

\* What the function returns instead: the average is null also when
\* every timed issue was closed within a day of its creation.
C26_AverageNullIffMeanZero ==
    Measured =>
        LET timed == ClosedTimed(op.issues)
            metrics == reply.result.value
            days == [k \in 1..Len(timed) |->
                        Days(timed[k].created_at, CHOOSE t \in timed[k].closed_at : TRUE)]
        IN /\ metrics.average_issue_resolution_time = {}
                <=> (timed = << >> \/ Sum(days) = 0)
           /\ op.issues = << >> => metrics.issue_resolution_rate = 0
           /\ (timed # << >> /\ Sum(days) # 0) =>
                 metrics.average_issue_resolution_time
                   = {RoundedQuotient(Sum(days), Len(days))}

\* multi_user_battle has returned its leaderboard.
LeaderboardMade == BattleWon /\ battle.endpoint = "multi-battle"

\* The first of the analyses kept, in input order, whose total under a
\* profile no other one exceeds.
FirstMaximum(analyses, category) ==
    LET total(i) == CalculateBattleScore(analyses[i].analysis, category).total
        best == { i \in 1..Len(analyses) : \A j \in 1..Len(analyses) : total(i) >= total(j) }
    IN CHOOSE i \in best : \A j \in best : i <= j

\* C23 (as stated): for each of the four categories the category winner
\* reported is the survivor whose total under that profile is the
\* maximum over all survivors, the first of them in input order when
\* several share the maximum.
C23_CategoryWinnerIsFirstMaximum ==
    LeaderboardMade =>
        \A c \in BattleTypes :
            reply.result.value.category_winners[c]
              = battle.analyses[FirstMaximum(battle.analyses, c)].username

\* The usernames of the request are pairwise distinct.
DistinctNames ==
    \A i \in 1..Len(battle.usernames) : \A j \in 1..Len(battle.usernames) :
        battle.usernames[i] = battle.usernames[j] => i = j

\* What multi_user_battle guarantees: the statement holds when no
\* username is named twice.
C23_FirstMaximumOfDistinctNames ==
    (LeaderboardMade /\ DistinctNames) => C23_CategoryWinnerIsFirstMaximum

\* C29 (as stated): in every BattleResult and MultiBattleResult the
\* participants have pairwise distinct usernames, and the recommendations
\* map and each per-category score map hold one entry per participant.
C29_ParticipantsDistinct ==
    BattleWon =>
        LET ps == reply.result.value.items IN
        /\ \A i \in 1..Len(ps) : \A j \in 1..Len(ps) :
              ps[i].username = ps[j].username => i = j
        /\ battle.endpoint # "multi-battle" =>
              Len(reply.result.value.recommendations) = Len(ps)
        /\ battle.endpoint = "multi-battle" =>
              \A c \in BattleTypes : Len(reply.result.value.category_scores[c]) = Len(ps)

\* What the services guarantee: the maps hold one entry per distinct
\* username of the participants.
C29_OneEntryPerName ==
    BattleWon =>
        LET ps == reply.result.value.items
            names == { ps[i].username : i \in 1..Len(ps) }
        IN /\ battle.endpoint # "multi-battle" =>
                 Len(reply.result.value.recommendations) = Cardinality(names)
           /\ battle.endpoint = "multi-battle" =>
                 \A c \in BattleTypes :
                     Len(reply.result.value.category_scores[c]) = Cardinality(names)

\* bulk_analyze_repositories has run its loop and answered.
BulkAnswered ==
    /\ op.name = "bulk_analyze"
    /\ op.stage = "done"
    /\ reply.status = 200

\* The result entry that stands for an entry of the request: it is
\* marked success and carries the analysis, or marked failed and carries
\* an error, as the analysis of the entry ended.
StandsFor(result, entry, outcome) ==
    /\ result.repository = FullName(entry)
    /\ IF outcome.ok
         THEN result.status = "success" /\ result.analysis = {outcome.value}
         ELSE result.status = "failed" /\ result.error # {}

\* C24 (as stated): every entry of the request yields exactly one result
\* entry, in input order, marked success with its analysis or failed
\* with an error, and total_analyzed is the number of success entries.
C24_AsStated ==
    BulkAnswered =>
        LET results == reply.result.value.items IN
        /\ Len(results) = Len(loop.repositories)
        /\ \A i \in 1..Len(results) : results[i].status \in {"success", "failed"}
        /\ reply.result.value.total_analyzed
             = Cardinality({ i \in 1..Len(results) : results[i].status = "success" })

\* The positions of the entries of a request that name an owner and a
\* repository, in order.
RECURSIVE NamedPositions(_, _)
NamedPositions(repositories, i) ==
    IF i > Len(repositories) THEN << >>
    ELSE (IF TruthyStr(repositories[i].owner) /\ TruthyStr(repositories[i].repo)
            THEN <<i>> ELSE << >>) \o NamedPositions(repositories, i + 1)

\* C24 (amended): a failing repository never aborts the batch; every
\* entry that names a non-empty owner and a non-empty repo is analysed
\* and yields exactly one result entry, in input order, marked success
\* with its analysis or failed with an error; an entry that lacks either
\* is skipped without a result entry; total_analyzed is the number of
\* success entries.
C24_OneEntryPerNamedRepository ==
    BulkAnswered =>
        LET results == reply.result.value.items
            named == NamedPositions(loop.repositories, 1)
        IN /\ Len(loop.met) = Len(loop.repositories)
           /\ Len(results) = Len(named)
           /\ \A k \in 1..Len(named) :
                 StandsFor(results[k], loop.repositories[named[k]], loop.met[named[k]])
           /\ Sent("repo") = Len(named)
           /\ reply.result.value.total_analyzed
                = Cardinality({ k \in 1..Len(named) : loop.met[named[k]].ok })

\* Of three entries the first fails with 404, the second lacks its
\* owner and the third succeeds.
C24_Witness ==
    /\ BulkAnswered
    /\ Len(loop.repositories) = 3
    /\ loop.met[1] = HTTPException(404)
    /\ loop.repositories[2].owner = {}
    /\ loop.met[3].ok
    /\ Len(reply.result.value.items) = 2
    /\ reply.result.value.total_analyzed = 1

\* The sub-fetches that hand the outcome of their one call of
\* _make_request on unchanged, once they have finished.
PlainCalls ==
    { n \in DOMAIN task \cap {"profile", "repo_info"} : task[n].state = "done" }

\* The outcome the kind of an upstream result stands for.
OutcomeOf(ans, data) ==
    IF ans.kind = "response" /\ ans.status \in 200..299 THEN Returned(data)
    ELSE HTTPException(StatusOfKind(ans))

\* C25 (as stated): each call of _make_request issues exactly one request
\* and ends in the outcome fixed by the upstream result: the JSON body
\* for a 2xx response, NotFound for 404, Forbidden for 403, Timeout (408)
\* for a timeout, TransportError (500) for any other transport failure
\* and UpstreamError with the upstream status for every other response.
C25_OutcomeFixedByUpstreamResult ==
    \A n \in PlainCalls :
        /\ task[n].result = OutcomeOf(task[n].answer, Holds(FirstEndpoint(n)))
        /\ n = "profile" => Sent("user") = 1

\* What _make_request guarantees: the same, but a 2xx response whose body
\* is no JSON ends in the exception of the JSON decoder, which is none of
\* the typed kinds.
C25_OutcomeUnlessBodyIsNoJson ==
    \A n \in PlainCalls :
        /\ task[n].result =
             (IF /\ task[n].answer.kind = "response"
                 /\ task[n].answer.status \in 200..299
                 /\ task[n].answer.body # "json"
                THEN OtherException("JSONDecodeError")
                ELSE OutcomeOf(task[n].answer, Holds(FirstEndpoint(n))))
        /\ n = "profile" => Sent("user") = 1


\* C28: the repository list of a profile analysis is all or nothing: when
\* a page request of the listing fails, also one that follows pages
\* fetched with success, the analysis goes on with the empty list; else
\* the record holds the whole listing; it never holds some of the pages
\* only.
C28_RepositoriesAllOrNothing ==
    (ProfileAnalysed /\ reply.result.ok) =>
        LET analysis == reply.result.value IN
        IF task["repositories"].failed
          THEN /\ analysis.repositories = EmptyList
               /\ analysis.stats.total_repos = 0
          ELSE /\ RunsLen(analysis.repositories.items) = op.total
               /\ analysis.stats.total_repos = op.total

\* The first page was fetched in full and the request for the second
\* one failed: the analysis holds no repository.
C28_Witness ==
    /\ ProfileAnalysed
    /\ reply.result.ok
    /\ task["repositories"].failed
    /\ loop.requested = <<1, 2>>
    /\ RunsLen(loop.all_repos) = PER_PAGE
    /\ reply.result.value.repositories = EmptyList


\* The gate has forwarded a request that was not excluded.
Forwarded ==
    /\ gate \in {"ValidPassthrough", "RefreshedPassthrough"}
    /\ handlerCalls = 1

\* C27 (as stated): whenever the gate forwards a request that is not
\* excluded, the upstream token it attached to the request context is
\* present and not empty; a credential with a valid signature and no
\* access_token never reaches a handler.
C27_ForwardedHasUpstreamToken ==
    Forwarded => TruthyStr(handlerSaw.github_token)

\* What the gate guarantees: the token is present and not empty when the
\* credential went through refresh_token; a credential far from expiry
\* is forwarded with whatever access_token it carries, none included.
C27_RefreshedHasUpstreamToken ==
    (Forwarded /\ gate = "RefreshedPassthrough") => TruthyStr(handlerSaw.github_token)

\* POST /api/auth/refresh has answered.
RefreshAnswered == op.name = "refresh_token" /\ op.stage = "done"

\* What the gate's validate-and-refresh logic, run with the signing
\* secret and algorithm of the application, makes of the credential.
GateOutcome == ValidateAndRefreshToken(op.old_token, now, tz, op.world)

\* C30 (as stated): the endpoint runs the validate-and-refresh logic of
\* the gate with the application's secret and algorithm: a credential
\* whose outcome is refreshed is answered with the replacement credential
\* and its scopes, every other one with 401, and none with 500.
C30_RefreshEndpointFollowsGate ==
    RefreshAnswered =>
        /\ reply.status # 500
        /\ IF GateOutcome.status = "refreshed"
             THEN /\ reply.status = 200
                  /\ reply.result.value.access_token = GateOutcome.new_token
                  /\ reply.result.value.scopes = GetScopes(GateOutcome.payload)
             ELSE reply.status = 401

\* What the endpoint does: it answers every request with 500.
C30_RefreshEndpointAlwaysFails ==
    RefreshAnswered => reply.status = 500 /\ reply.result.exc = "AttributeError"

====
